---- MODULE Spec2Model ----
(***************************************************************************)
(* ert-manifest: the extraction pipeline of one column.                    *)
(*                                                                         *)
(* A column is a header and a stream of cells.  The delimited-text reader  *)
(* (readers/csv.rs) scans the stream twice: pass 1 feeds the type          *)
(* inferencer, pass 2 feeds the statistics tracker (after recoding), and   *)
(* the column schema is then assembled.  The spreadsheet reader            *)
(* (readers/excel.rs) does both in one scan of typed cells.                *)
(*                                                                         *)
(* Strings are sequences of one-character strings, so that length, trim,   *)
(* case folding, prefix/suffix tests and the regular expressions of the    *)
(* source are computed, not assumed.  f64 values are exact rationals       *)
(* [n |-> numerator, d |-> denominator > 0] in lowest terms.               *)
(***************************************************************************)
EXTENDS Integers, Sequences, FiniteSets, TLC

(***************************************************************************)
(* Bounds of the model.                                                    *)
(***************************************************************************)
\* longest row stream explored per column
MaxRows == 3
\* cap the explored pipeline constructs its unique trackers with; the
\* source passes MAX_UNIQUE_VALUES, the tracker depends on the cap only
\* through `values.len() > max_values`
UniqueCap == 2
\* sample capacity the explored pipeline constructs its inferencers with;
\* the source passes TYPE_INFERENCE_SAMPLE_SIZE
SampleCap == 2

(***************************************************************************)
(* Program constants (types.rs).                                           *)
(***************************************************************************)
MAX_SHORT_STRING_LEN == 32
MAX_UNIQUE_VALUES == 2000
DEFAULT_K_ANONYMITY == 5
TYPE_INFERENCE_SAMPLE_SIZE == 2000

(***************************************************************************)
(* Strings (str methods of the Rust standard library, ASCII range).        *)
(***************************************************************************)
UpperLetters ==
    << "A", "B", "C", "D", "E", "F", "G", "H", "I", "J", "K", "L", "M",
       "N", "O", "P", "Q", "R", "S", "T", "U", "V", "W", "X", "Y", "Z" >>

LowerLetters ==
    << "a", "b", "c", "d", "e", "f", "g", "h", "i", "j", "k", "l", "m",
       "n", "o", "p", "q", "r", "s", "t", "u", "v", "w", "x", "y", "z" >>

DigitChars == << "0", "1", "2", "3", "4", "5", "6", "7", "8", "9" >>

UpperSet == {UpperLetters[i] : i \in 1..26}

LowerSet == {LowerLetters[i] : i \in 1..26}

DigitSet == {DigitChars[i] : i \in 1..10}

IsUpper(c) == c \in UpperSet

IsLower(c) == c \in LowerSet

IsAlpha(c) == IsUpper(c) \/ IsLower(c)

IsDigit(c) == c \in DigitSet

IsAlnum(c) == IsAlpha(c) \/ IsDigit(c)

IsHexDigit(c) == IsDigit(c) \/ c \in {"a", "b", "c", "d", "e", "f", "A", "B", "C", "D", "E", "F"}

\* char::is_whitespace on the ASCII range; also the class \s of the regexes
IsWhitespace(c) == c \in {" ", "\t", "\n", "\r", "\f"}

DigitVal(c) == (CHOOSE i \in 1..10 : DigitChars[i] = c) - 1

\* u8::to_ascii_lowercase on the letters
LowerOfUpper ==
    [c \in UpperSet |-> LowerLetters[CHOOSE i \in 1..26 : UpperLetters[i] = c]]

LowerChar(c) == IF IsUpper(c) THEN LowerOfUpper[c] ELSE c

to_lowercase(s) == [i \in 1..Len(s) |-> LowerChar(s[i])]

RECURSIVE trim_start(_)
trim_start(s) ==
    IF s # <<>> /\ IsWhitespace(Head(s)) THEN trim_start(Tail(s)) ELSE s

RECURSIVE trim_end(_)
trim_end(s) ==
    IF s # <<>> /\ IsWhitespace(s[Len(s)])
    THEN trim_end(SubSeq(s, 1, Len(s) - 1))
    ELSE s

trim(s) == trim_end(trim_start(s))

eq_ignore_ascii_case(a, b) ==
    /\ Len(a) = Len(b)
    /\ \A i \in 1..Len(a) : LowerChar(a[i]) = LowerChar(b[i])

starts_with(s, p) == Len(p) <= Len(s) /\ SubSeq(s, 1, Len(p)) = p

ends_with(s, p) == Len(p) <= Len(s) /\ SubSeq(s, Len(s) - Len(p) + 1, Len(s)) = p

contains(s, p) ==
    \E i \in 1..(Len(s) - Len(p) + 1) : SubSeq(s, i, i + Len(p) - 1) = p

AllChars(s, from, to, P(_)) == \A i \in from..to : P(s[i])

\* the pieces of s between occurrences of sep (str::split)
RECURSIVE split(_, _)
split(s, sep) ==
    IF \E i \in 1..Len(s) : s[i] = sep
    THEN LET i == CHOOSE j \in 1..Len(s) : s[j] = sep /\ \A k \in 1..(j - 1) : s[k] # sep
         IN <<SubSeq(s, 1, i - 1)>> \o split(SubSeq(s, i + 1, Len(s)), sep)
    ELSE <<s>>

\* n copies of the character c
Repeat(c, n) == [i \in 1..n |-> c]

\* decimal text of a natural number / an integer (to_string of i64, u64)
RECURSIVE NatToString(_)
NatToString(n) ==
    IF n < 10 THEN <<DigitChars[n + 1]>>
    ELSE NatToString(n \div 10) \o <<DigitChars[(n % 10) + 1]>>

IntToString(i) == IF i < 0 THEN <<"-">> \o NatToString(-i) ELSE NatToString(i)

(***************************************************************************)
(* f64 as exact rationals.                                                 *)
(***************************************************************************)
Abs(x) == IF x < 0 THEN -x ELSE x

RECURSIVE GCD(_, _)
GCD(a, b) == IF b = 0 THEN a ELSE GCD(b, a % b)

Frac(n, d) ==
    LET g == GCD(Abs(n), Abs(d))
        s == IF d < 0 THEN -1 ELSE 1
    IN [n |-> (s * n) \div g, d |-> (s * d) \div g]

F64(i) == [n |-> i, d |-> 1]

FAdd(a, b) == Frac(a.n * b.d + b.n * a.d, a.d * b.d)

FSub(a, b) == Frac(a.n * b.d - b.n * a.d, a.d * b.d)

FMul(a, b) == Frac(a.n * b.n, a.d * b.d)

FDiv(a, b) == Frac(a.n * b.d, a.d * b.n)

FLt(a, b) == a.n * b.d < b.n * a.d

FLe(a, b) == a.n * b.d <= b.n * a.d

FMin(a, b) == IF FLt(b, a) THEN b ELSE a

FMax(a, b) == IF FLt(a, b) THEN b ELSE a

RECURSIVE Pow10(_)
Pow10(k) == IF k = 0 THEN 1 ELSE 10 * Pow10(k - 1)

(***************************************************************************)
(* inference.rs: token recognisers.                                        *)
(***************************************************************************)
MISSING_TOKENS ==
    << <<>>, <<"N", "A">>, <<"N", "/", "A">>, <<"n", "a">>, <<"n", "/", "a">>,
       <<"N", "U", "L", "L">>, <<"n", "u", "l", "l">>, <<"N", "a", "N">>, <<"n", "a", "n">>,
       <<".">>, <<"-">>, <<"-", "-">>, <<"m", "i", "s", "s", "i", "n", "g">>,
       <<"M", "I", "S", "S", "I", "N", "G">>, <<"N", "o", "n", "e">>, <<"n", "o", "n", "e">>,
       <<"#", "N", "/", "A">>, <<"#", "V", "A", "L", "U", "E", "!">>,
       <<"#", "R", "E", "F", "!">>, <<"#", "D", "I", "V", "/", "0", "!">>,
       <<"#", "N", "U", "M", "!">>, <<"#", "N", "A", "M", "E", "?">>,
       <<"#", "N", "U", "L", "L", "!">> >>

TRUE_TOKENS ==
    << <<"t", "r", "u", "e">>, <<"y", "e", "s">>, <<"y">>, <<"1">>, <<"t">> >>

FALSE_TOKENS ==
    << <<"f", "a", "l", "s", "e">>, <<"n", "o">>, <<"n">>, <<"0">>, <<"f">> >>

MonthNames ==
    << <<"j", "a", "n", "u", "a", "r", "y">>, <<"f", "e", "b", "r", "u", "a", "r", "y">>,
       <<"m", "a", "r", "c", "h">>, <<"a", "p", "r", "i", "l">>, <<"m", "a", "y">>,
       <<"j", "u", "n", "e">>, <<"j", "u", "l", "y">>, <<"a", "u", "g", "u", "s", "t">>,
       <<"s", "e", "p", "t", "e", "m", "b", "e", "r">>, <<"o", "c", "t", "o", "b", "e", "r">>,
       <<"n", "o", "v", "e", "m", "b", "e", "r">>, <<"d", "e", "c", "e", "m", "b", "e", "r">> >>

I64MaxDigits == <<"9", "2", "2", "3", "3", "7", "2", "0", "3", "6", "8", "5", "4", "7", "7", "5", "8", "0", "7">>

I64MinDigits == <<"9", "2", "2", "3", "3", "7", "2", "0", "3", "6", "8", "5", "4", "7", "7", "5", "8", "0", "8">>

InSeq(x, seq) == \E i \in 1..Len(seq) : seq[i] = x

is_missing(value) ==
    LET trimmed == trim(value)
    IN \E i \in 1..Len(MISSING_TOKENS) : eq_ignore_ascii_case(trimmed, MISSING_TOKENS[i])

is_boolean(value) ==
    LET lower == to_lowercase(trim(value))
    IN InSeq(lower, TRUE_TOKENS) \/ InSeq(lower, FALSE_TOKENS)

AllDigits(s) == AllChars(s, 1, Len(s), IsDigit)

RECURSIVE StripZeros(_)
StripZeros(s) == IF Len(s) > 1 /\ Head(s) = "0" THEN StripZeros(Tail(s)) ELSE s

\* a <= b for digit strings of equal length
DigitsLe(a, b) ==
    \/ a = b
    \/ \E i \in 1..Len(a) :
          /\ \A j \in 1..(i - 1) : a[j] = b[j]
          /\ DigitVal(a[i]) < DigitVal(b[i])

\* str::parse::<i64>().is_ok(): optional sign, at least one digit, in range
ParseI64Ok(s) ==
    /\ s # <<>>
    /\ LET neg == Head(s) = "-"
           body == IF Head(s) \in {"+", "-"} THEN Tail(s) ELSE s
           sig == StripZeros(body)
       IN /\ body # <<>>
          /\ AllDigits(body)
          /\ \/ Len(sig) < 19
             \/ Len(sig) = 19 /\ DigitsLe(sig, IF neg THEN I64MinDigits ELSE I64MaxDigits)

\* position of the exponent marker of a decimal literal, 0 if none
ExpPos(s) ==
    IF \E i \in 1..Len(s) : s[i] \in {"e", "E"}
    THEN CHOOSE i \in 1..Len(s) : s[i] \in {"e", "E"} /\ \A j \in 1..(i - 1) : s[j] \notin {"e", "E"}
    ELSE 0

Mantissa(s) == IF ExpPos(s) = 0 THEN s ELSE SubSeq(s, 1, ExpPos(s) - 1)

Exponent(s) == IF ExpPos(s) = 0 THEN <<>> ELSE SubSeq(s, ExpPos(s) + 1, Len(s))

\* digits with at most one '.', and at least one digit
MantissaOk(m) ==
    LET parts == split(m, ".")
    IN /\ Len(parts) \in {1, 2}
       /\ \A i \in 1..Len(parts) : AllDigits(parts[i])
       /\ \E i \in 1..Len(parts) : parts[i] # <<>>

ExponentOk(e) ==
    LET body == IF e # <<>> /\ Head(e) \in {"+", "-"} THEN Tail(e) ELSE e
    IN body # <<>> /\ AllDigits(body)

\* str::parse::<f64>().is_ok(): optional sign, then inf / infinity / nan in
\* any case, or a decimal literal with optional fraction and exponent
ParseF64Ok(s) ==
    /\ s # <<>>
    /\ LET body == IF Head(s) \in {"+", "-"} THEN Tail(s) ELSE s
       IN \/ to_lowercase(body) \in {<<"i", "n", "f">>, <<"n", "a", "n">>,
                                      <<"i", "n", "f", "i", "n", "i", "t", "y">>}
          \/ /\ MantissaOk(Mantissa(body))
             /\ ExpPos(body) # 0 => ExponentOk(Exponent(body))

RECURSIVE DigitsToNat(_)
DigitsToNat(s) ==
    IF s = <<>> THEN 0 ELSE 10 * DigitsToNat(SubSeq(s, 1, Len(s) - 1)) + DigitVal(s[Len(s)])

\* the value of a decimal literal accepted by ParseF64Ok (the literals of
\* the cell universe are finite decimals; inf and nan are not among them)
ParseF64Value(s) ==
    LET neg == Head(s) = "-"
        body == IF Head(s) \in {"+", "-"} THEN Tail(s) ELSE s
        parts == split(Mantissa(body), ".")
        frac == IF Len(parts) = 2 THEN parts[2] ELSE <<>>
        e == Exponent(body)
        eneg == e # <<>> /\ Head(e) = "-"
        ebody == IF e # <<>> /\ Head(e) \in {"+", "-"} THEN Tail(e) ELSE e
        shift == (IF eneg THEN -DigitsToNat(ebody) ELSE DigitsToNat(ebody)) - Len(frac)
        m == DigitsToNat(parts[1] \o frac)
        mag == IF shift >= 0 THEN Frac(m * Pow10(shift), 1) ELSE Frac(m, Pow10(-shift))
    IN IF neg THEN Frac(-mag.n, mag.d) ELSE mag

is_integer(value) ==
    LET trimmed == trim(value)
    IN trimmed # <<>> /\ ParseI64Ok(trimmed)

is_numeric(value) ==
    LET trimmed == trim(value)
    IN trimmed # <<>> /\ ParseF64Ok(trimmed)

\* Option<f64>: <<>> is None, <<x>> is Some(x)
parse_numeric(value) ==
    IF ParseF64Ok(trim(value)) THEN <<ParseF64Value(trim(value))>> ELSE <<>>

\* a fixed-length shape: "#" stands for \d, "~" for [T ], anything else for itself
MatchShape(s, shape) ==
    /\ Len(s) = Len(shape)
    /\ \A i \in 1..Len(s) :
          CASE shape[i] = "#" -> IsDigit(s[i])
            [] shape[i] = "~" -> s[i] \in {"T", " "}
            [] OTHER -> s[i] = shape[i]

\* three digit fields of the given length ranges joined by sep
MatchFields(s, sep, lens) ==
    LET parts == split(s, sep)
    IN /\ Len(parts) = 3
       /\ \A i \in 1..3 : AllDigits(parts[i]) /\ Len(parts[i]) \in lens[i]

IsLeap(y) == (y % 4 = 0 /\ y % 100 # 0) \/ y % 400 = 0

DaysInMonth(y, m) ==
    IF m = 2 THEN (IF IsLeap(y) THEN 29 ELSE 28)
    ELSE IF m \in {4, 6, 9, 11} THEN 30 ELSE 31

\* NaiveDate::from_ymd_opt(y, m, d).is_some()
ValidDate(y, m, d) == m \in 1..12 /\ d >= 1 /\ d <= DaysInMonth(y, m)

\* %y of chrono: 00..68 are 2000..2068, 69..99 are 1969..1999
TwoDigitYear(yy) == IF yy <= 68 THEN 2000 + yy ELSE 1900 + yy

\* %B of chrono: the full or the three-letter month name, in any case
MonthOfName(w) ==
    LET l == to_lowercase(w)
    IN IF \E i \in 1..12 : l = MonthNames[i] \/ l = SubSeq(MonthNames[i], 1, 3)
       THEN CHOOSE i \in 1..12 : l = MonthNames[i] \/ l = SubSeq(MonthNames[i], 1, 3)
       ELSE 0

\* DATE_PATTERNS[4]: ^[A-Za-z]{3,9}\s+\d{1,2},?\s+\d{4}$ parsed with "%B %d, %Y"
\* (the format requires the comma the regex leaves optional)
MatchMonthName(s) ==
    \E a \in 3..9 :
       /\ a < Len(s)
       /\ AllChars(s, 1, a, IsAlpha)
       /\ MonthOfName(SubSeq(s, 1, a)) # 0
       /\ \E b \in (a + 1)..Len(s) :
             /\ AllChars(s, a + 1, b, IsWhitespace)
             /\ \E c \in (b + 1)..(b + 2) :
                   /\ c + 1 <= Len(s)
                   /\ AllChars(s, b + 1, c, IsDigit)
                   /\ s[c + 1] = ","
                   /\ \E e \in (c + 2)..Len(s) :
                         /\ AllChars(s, c + 2, e, IsWhitespace)
                         /\ Len(s) = e + 4
                         /\ AllChars(s, e + 1, e + 4, IsDigit)
                         /\ ValidDate(DigitsToNat(SubSeq(s, e + 1, e + 4)),
                                      MonthOfName(SubSeq(s, 1, a)),
                                      DigitsToNat(SubSeq(s, b + 1, c)))

FieldNat(s, sep, i) == DigitsToNat(split(s, sep)[i])

is_date(value) ==
    LET t == trim(value)
    IN /\ t # <<>>
       /\ \/ /\ MatchShape(t, <<"#", "#", "#", "#", "-", "#", "#", "-", "#", "#">>)
             /\ ValidDate(FieldNat(t, "-", 1), FieldNat(t, "-", 2), FieldNat(t, "-", 3))
          \/ /\ MatchFields(t, "/", <<{1, 2}, {1, 2}, {4}>>)
             /\ ValidDate(FieldNat(t, "/", 3), FieldNat(t, "/", 1), FieldNat(t, "/", 2))
          \/ /\ MatchFields(t, "-", <<{1, 2}, {1, 2}, {4}>>)
             /\ ValidDate(FieldNat(t, "-", 3), FieldNat(t, "-", 2), FieldNat(t, "-", 1))
          \/ /\ MatchFields(t, "/", <<{1, 2}, {1, 2}, {2}>>)
             /\ ValidDate(TwoDigitYear(FieldNat(t, "/", 3)), FieldNat(t, "/", 1),
                          FieldNat(t, "/", 2))
          \/ MatchMonthName(t)
          \/ /\ MatchShape(t, <<"#", "#", "#", "#", ".", "#", "#", ".", "#", "#">>)
             /\ ValidDate(FieldNat(t, ".", 1), FieldNat(t, ".", 2), FieldNat(t, ".", 3))

DateTimeShape ==
    << "#", "#", "#", "#", "-", "#", "#", "-", "#", "#", "~",
       "#", "#", ":", "#", "#", ":", "#", "#" >>

is_datetime(value) ==
    LET t == trim(value)
    IN /\ t # <<>>
       /\ \/ MatchShape(t, DateTimeShape)
          \/ MatchShape(t, DateTimeShape \o <<"Z">>)
          \/ /\ Len(t) > 20
             /\ MatchShape(SubSeq(t, 1, 20), DateTimeShape \o <<".">>)
             /\ AllChars(t, 21, Len(t), IsDigit)

(***************************************************************************)
(* inference.rs: TypeInferencer.  current_type "None" is Option::None.     *)
(***************************************************************************)
DTypes == {"Integer", "Numeric", "String", "Date", "Datetime", "Boolean", "FreeText"}

TypeInferencer_new(max_samples) ==
    [ current_type |-> "None",
      samples |-> <<>>,
      max_samples |-> max_samples,
      values_seen |-> 0,
      initial_inference_done |-> FALSE,
      free_text_count |-> 0 ]

all_boolean(values) == \A i \in 1..Len(values) : is_boolean(values[i])

all_integer(values) == \A i \in 1..Len(values) : is_integer(values[i])

all_numeric(values) == \A i \in 1..Len(values) : is_numeric(values[i])

all_date(values) == \A i \in 1..Len(values) : is_date(values[i])

all_datetime(values) == \A i \in 1..Len(values) : is_datetime(values[i])

\* the inference with the integers tested before the boolean tokens: the
\* variant C25 must reject
perform_initial_inference_integer_first(self) ==
    IF self.samples = <<>>
    THEN [self EXCEPT !.current_type = "String", !.initial_inference_done = TRUE]
    ELSE LET dtype ==
                 IF all_integer(self.samples) THEN "Integer"
                 ELSE IF all_boolean(self.samples) THEN "Boolean"
                 ELSE IF all_numeric(self.samples) THEN "Numeric"
                 ELSE IF all_datetime(self.samples) THEN "Datetime"
                 ELSE IF all_date(self.samples) THEN "Date"
                 ELSE "String"
         IN [self EXCEPT !.current_type = dtype,
                         !.initial_inference_done = TRUE,
                         !.samples = <<>>]

perform_initial_inference(self) ==
    IF self.samples = <<>>
    THEN [self EXCEPT !.current_type = "String", !.initial_inference_done = TRUE]
    ELSE LET dtype ==
                 IF all_boolean(self.samples) THEN "Boolean"
                 ELSE IF all_integer(self.samples) THEN "Integer"
                 ELSE IF all_numeric(self.samples) THEN "Numeric"
                 ELSE IF all_datetime(self.samples) THEN "Datetime"
                 ELSE IF all_date(self.samples) THEN "Date"
                 ELSE "String"
         IN [self EXCEPT !.current_type = dtype,
                         !.initial_inference_done = TRUE,
                         !.samples = <<>>]

inferred_type(self) ==
    IF self.current_type = "None" THEN "String" ELSE self.current_type

\* the match with a Datetime column falling back to Date on a value that is
\* a date only: the variant C13 must reject
UpgradedType_datetime_back_to_date(current, value) ==
    CASE current = "Integer" ->
             IF ~is_integer(value)
             THEN (IF is_numeric(value) THEN "Numeric" ELSE "String")
             ELSE current
      [] current = "Numeric" -> IF ~is_numeric(value) THEN "String" ELSE current
      [] current = "Boolean" -> IF ~is_boolean(value) THEN "String" ELSE current
      [] current = "Date" ->
             IF is_datetime(value) THEN "Datetime"
             ELSE IF ~is_date(value) THEN "String" ELSE current
      [] current = "Datetime" ->
             IF is_datetime(value) THEN current
             ELSE IF is_date(value) THEN "Date" ELSE "String"
      [] OTHER -> current

\* the match with an Integer column falling to String on every value that is
\* no integer, a float included: the variant C24 must reject
UpgradedType_integer_straight_to_string(current, value) ==
    CASE current = "Integer" -> IF ~is_integer(value) THEN "String" ELSE current
      [] current = "Numeric" -> IF ~is_numeric(value) THEN "String" ELSE current
      [] current = "Boolean" -> IF ~is_boolean(value) THEN "String" ELSE current
      [] current = "Date" ->
             IF is_datetime(value) THEN "Datetime"
             ELSE IF ~is_date(value) THEN "String" ELSE current
      [] current = "Datetime" ->
             IF ~is_datetime(value) /\ ~is_date(value) THEN "String" ELSE current
      [] OTHER -> current

\* the match with an Integer column staying Integer on a value that parses
\* as a float only: the variant C28 must reject
UpgradedType_integer_keeps_floats(current, value) ==
    CASE current = "Integer" ->
             IF ~is_integer(value) /\ ~is_numeric(value) THEN "String" ELSE current
      [] current = "Numeric" -> IF ~is_numeric(value) THEN "String" ELSE current
      [] current = "Boolean" -> IF ~is_boolean(value) THEN "String" ELSE current
      [] current = "Date" ->
             IF is_datetime(value) THEN "Datetime"
             ELSE IF ~is_date(value) THEN "String" ELSE current
      [] current = "Datetime" ->
             IF ~is_datetime(value) /\ ~is_date(value) THEN "String" ELSE current
      [] OTHER -> current

\* the type the match on the current type yields, the current type where
\* the source returns early
UpgradedType(current, value) ==
    CASE current = "Integer" ->
             IF ~is_integer(value)
             THEN (IF is_numeric(value) THEN "Numeric" ELSE "String")
             ELSE current
      [] current = "Numeric" -> IF ~is_numeric(value) THEN "String" ELSE current
      [] current = "Boolean" -> IF ~is_boolean(value) THEN "String" ELSE current
      [] current = "Date" ->
             IF is_datetime(value) THEN "Datetime"
             ELSE IF ~is_date(value) THEN "String" ELSE current
      [] current = "Datetime" ->
             IF ~is_datetime(value) /\ ~is_date(value) THEN "String" ELSE current
      [] OTHER -> current

upgrade_type_if_needed(self, value) ==
    LET current == inferred_type(self)
        is_free == Len(value) > 100 \/ InSeq("\n", value)
        s1 == IF is_free THEN [self EXCEPT !.free_text_count = @ + 1] ELSE self
    IN IF is_free /\ s1.free_text_count > 10 /\ current = "String"
       THEN [s1 EXCEPT !.current_type = "FreeText"]
       ELSE IF UpgradedType(current, value) = current
            THEN s1
            ELSE [s1 EXCEPT !.current_type = UpgradedType(current, value)]

\* observe counting a value before it tests for a missing token: the
\* variant C27 must reject
observe_counting_missing(self, value) ==
    LET s1 == [self EXCEPT !.values_seen = @ + 1]
    IN IF is_missing(value) THEN s1
       ELSE IF ~s1.initial_inference_done
            THEN LET s2 == IF Len(s1.samples) < s1.max_samples
                           THEN [s1 EXCEPT !.samples = Append(@, value)]
                           ELSE s1
                 IN IF Len(s2.samples) >= s2.max_samples
                    THEN perform_initial_inference(s2)
                    ELSE s2
            ELSE upgrade_type_if_needed(s1, value)

observe(self, value) ==
    IF is_missing(value) THEN self
    ELSE LET s1 == [self EXCEPT !.values_seen = @ + 1]
         IN IF ~s1.initial_inference_done
            THEN LET s2 == IF Len(s1.samples) < s1.max_samples
                           THEN [s1 EXCEPT !.samples = Append(@, value)]
                           ELSE s1
                 IN IF Len(s2.samples) >= s2.max_samples
                    THEN perform_initial_inference(s2)
                    ELSE s2
            ELSE upgrade_type_if_needed(s1, value)

finalize_initial_inference(self) ==
    IF ~self.initial_inference_done /\ self.samples # <<>>
    THEN perform_initial_inference(self)
    ELSE self

(***************************************************************************)
(* stats.rs: WelfordStats.  Option<f64>: <<>> is None, <<x>> is Some(x).   *)
(***************************************************************************)
WelfordStats_new ==
    [count |-> 0, mean |-> F64(0), m2 |-> F64(0), min |-> <<>>, max |-> <<>>]

WelfordStats_update(self, value) ==
    LET count == self.count + 1
        delta == FSub(value, self.mean)
        mean == FAdd(self.mean, FDiv(delta, F64(count)))
        delta2 == FSub(value, mean)
    IN [ count |-> count,
         mean |-> mean,
         m2 |-> FAdd(self.m2, FMul(delta, delta2)),
         min |-> <<IF self.min = <<>> THEN value ELSE FMin(self.min[1], value)>>,
         max |-> <<IF self.max = <<>> THEN value ELSE FMax(self.max[1], value)>> ]

WelfordStats_mean(self) == IF self.count > 0 THEN <<self.mean>> ELSE <<>>

WelfordStats_variance(self) ==
    IF self.count > 1 THEN <<FDiv(self.m2, F64(self.count - 1))>> ELSE <<>>

(***************************************************************************)
(* stats.rs: P2Quantile.  Arrays are functions on 0..4 as in the source.   *)
(***************************************************************************)
Half == Frac(1, 2)

P2Quantile_new(p) ==
    [ p |-> p,
      q |-> [i \in 0..4 |-> F64(0)],
      n |-> [i \in 0..4 |-> i + 1],
      n_prime |-> [i \in 0..4 |->
                     CASE i = 0 -> F64(1)
                       [] i = 1 -> FAdd(F64(1), FMul(F64(2), p))
                       [] i = 2 -> FAdd(F64(1), FMul(F64(4), p))
                       [] i = 3 -> FAdd(F64(3), FMul(F64(2), p))
                       [] OTHER -> F64(5)],
      dn |-> [i \in 0..4 |->
                CASE i = 0 -> F64(0)
                  [] i = 1 -> FDiv(p, F64(2))
                  [] i = 2 -> p
                  [] i = 3 -> FDiv(FAdd(F64(1), p), F64(2))
                  [] OTHER -> F64(1)],
      count |-> 0,
      initialized |-> FALSE,
      initial_values |-> <<>> ]

P2Quantile_median == P2Quantile_new(Half)

\* insertion of x into an ascending sequence
RECURSIVE InsertSorted(_, _)
InsertSorted(seq, x) ==
    IF seq = <<>> THEN <<x>>
    ELSE IF FLt(x, Head(seq)) THEN <<x>> \o seq
    ELSE <<Head(seq)>> \o InsertSorted(Tail(seq), x)

\* sort_by(partial_cmp): ascending
RECURSIVE SortF64(_)
SortF64(seq) ==
    IF seq = <<>> THEN <<>>
    ELSE InsertSorted(SortF64(SubSeq(seq, 1, Len(seq) - 1)), seq[Len(seq)])

P2Quantile_initialize(self) ==
    LET sorted == SortF64(self.initial_values)
    IN [self EXCEPT !.initial_values = sorted,
                    !.q = [i \in 0..4 |-> sorted[i + 1]],
                    !.initialized = TRUE]

parabolic(self, i, d) ==
    LET qi == self.q[i]
        qi_m1 == self.q[i - 1]
        qi_p1 == self.q[i + 1]
        ni == F64(self.n[i])
        ni_m1 == F64(self.n[i - 1])
        ni_p1 == F64(self.n[i + 1])
    IN FAdd(qi,
            FMul(FDiv(d, FSub(ni_p1, ni_m1)),
                 FAdd(FDiv(FMul(FAdd(FSub(ni, ni_m1), d), FSub(qi_p1, qi)),
                           FSub(ni_p1, ni)),
                      FDiv(FMul(FSub(FSub(ni_p1, ni), d), FSub(qi, qi_m1)),
                           FSub(ni, ni_m1)))))

linear(self, i, d) ==
    LET qi == self.q[i]
        q_adj == IF d > 0 THEN self.q[i + 1] ELSE self.q[i - 1]
        ni == F64(self.n[i])
        n_adj == IF d > 0 THEN F64(self.n[i + 1]) ELSE F64(self.n[i - 1])
    IN FAdd(qi, FDiv(FMul(F64(d), FSub(q_adj, qi)), FSub(n_adj, ni)))

\* one iteration of the loop "for i in 1..4" that adjusts marker heights
AdjustMarker(self, i) ==
    LET d == FSub(self.n_prime[i], F64(self.n[i]))
    IN IF \/ FLe(F64(1), d) /\ self.n[i + 1] - self.n[i] > 1
          \/ FLe(d, F64(-1)) /\ self.n[i - 1] - self.n[i] < -1
       THEN LET d_sign == IF FLe(F64(0), d) THEN 1 ELSE -1
                q_new == parabolic(self, i, F64(d_sign))
                q_i == IF FLt(self.q[i - 1], q_new) /\ FLt(q_new, self.q[i + 1])
                       THEN q_new
                       ELSE linear(self, i, d_sign)
            IN [self EXCEPT !.q[i] = q_i, !.n[i] = @ + d_sign]
       ELSE self

\* the update that also moves the marker at the lower end of the cell the
\* observation fell in ("for i in k..5"): the variant C29 must reject
P2Quantile_update_from_k(self, x) ==
    LET s0 == [self EXCEPT !.count = @ + 1]
    IN IF ~s0.initialized
       THEN LET s1 == [s0 EXCEPT !.initial_values = Append(@, x)]
            IN IF Len(s1.initial_values) = 5 THEN P2Quantile_initialize(s1) ELSE s1
       ELSE LET k == IF FLt(x, s0.q[1]) THEN 0
                     ELSE IF FLt(x, s0.q[2]) THEN 1
                     ELSE IF FLt(x, s0.q[3]) THEN 2
                     ELSE 3
                s1 == [s0 EXCEPT
                         !.n = [i \in 0..4 |-> IF i >= k THEN @[i] + 1 ELSE @[i]],
                         !.n_prime = [i \in 0..4 |-> FAdd(@[i], s0.dn[i])]]
            IN AdjustMarker(AdjustMarker(AdjustMarker(s1, 1), 2), 3)

P2Quantile_update(self, x) ==
    LET s0 == [self EXCEPT !.count = @ + 1]
    IN IF ~s0.initialized
       THEN LET s1 == [s0 EXCEPT !.initial_values = Append(@, x)]
            IN IF Len(s1.initial_values) = 5 THEN P2Quantile_initialize(s1) ELSE s1
       ELSE LET k == IF FLt(x, s0.q[0]) THEN 0
                     ELSE IF FLt(x, s0.q[1]) THEN 0
                     ELSE IF FLt(x, s0.q[2]) THEN 1
                     ELSE IF FLt(x, s0.q[3]) THEN 2
                     ELSE 3
                q1 == IF FLt(x, s0.q[0]) THEN [s0.q EXCEPT ![0] = x]
                      ELSE IF \A i \in 1..4 : ~FLt(x, s0.q[i])
                           THEN [s0.q EXCEPT ![4] = x]
                           ELSE s0.q
                s1 == [s0 EXCEPT
                         !.q = q1,
                         !.n = [i \in 0..4 |-> IF i >= k + 1 THEN @[i] + 1 ELSE @[i]],
                         !.n_prime = [i \in 0..4 |-> FAdd(@[i], s0.dn[i])]]
            IN AdjustMarker(AdjustMarker(AdjustMarker(s1, 1), 2), 3)

\* f64::round of a non-negative value: half away from zero
RoundF64(x) == (2 * x.n + x.d) \div (2 * x.d)

P2Quantile_quantile(self) ==
    IF ~self.initialized
    THEN IF self.initial_values = <<>> THEN <<>>
         ELSE LET sorted == SortF64(self.initial_values)
                  idx == RoundF64(FMul(F64(Len(sorted) - 1), self.p))
              IN <<sorted[idx + 1]>>
    ELSE <<self.q[2]>>

(***************************************************************************)
(* stats.rs: CappedUniqueTracker and ColumnStatTracker.                    *)
(***************************************************************************)
CappedUniqueTracker_new(max_values) ==
    [ values |-> {},
      max_values |-> max_values,
      high_cardinality |-> FALSE,
      value_counts |-> [v \in {} |-> 0] ]

\* add without the early return of a sealed tracker: the variant C14 must
\* reject
CappedUniqueTracker_add_after_seal(self, value) ==
    LET counts == [v \in DOMAIN self.value_counts \cup {value} |->
                      IF v = value
                      THEN (IF v \in DOMAIN self.value_counts
                            THEN self.value_counts[v] ELSE 0) + 1
                      ELSE self.value_counts[v]]
        values == self.values \cup {value}
    IN IF Cardinality(values) > self.max_values
       THEN [self EXCEPT !.high_cardinality = TRUE,
                         !.values = {},
                         !.value_counts = [v \in {} |-> 0]]
       ELSE [self EXCEPT !.values = values, !.value_counts = counts]

\* add with the count of a new value started at one and then incremented:
\* the variant C12 must reject
CappedUniqueTracker_add_counting_from_one(self, value) ==
    IF self.high_cardinality THEN self
    ELSE LET counts == [v \in DOMAIN self.value_counts \cup {value} |->
                          IF v = value
                          THEN (IF v \in DOMAIN self.value_counts
                                THEN self.value_counts[v] ELSE 1) + 1
                          ELSE self.value_counts[v]]
             values == self.values \cup {value}
         IN IF Cardinality(values) > self.max_values
            THEN [self EXCEPT !.high_cardinality = TRUE,
                              !.values = {},
                              !.value_counts = [v \in {} |-> 0]]
            ELSE [self EXCEPT !.values = values, !.value_counts = counts]

\* add that seals without clearing the value set and the count map: the
\* variant C30 must reject
CappedUniqueTracker_add_sealing_uncleared(self, value) ==
    IF self.high_cardinality THEN self
    ELSE LET counts == [v \in DOMAIN self.value_counts \cup {value} |->
                          IF v = value
                          THEN (IF v \in DOMAIN self.value_counts
                                THEN self.value_counts[v] ELSE 0) + 1
                          ELSE self.value_counts[v]]
             values == self.values \cup {value}
         IN [self EXCEPT !.high_cardinality = Cardinality(values) > self.max_values,
                         !.values = values,
                         !.value_counts = counts]

CappedUniqueTracker_add(self, value) ==
    IF self.high_cardinality THEN self
    ELSE LET counts == [v \in DOMAIN self.value_counts \cup {value} |->
                          IF v = value
                          THEN (IF v \in DOMAIN self.value_counts
                                THEN self.value_counts[v] ELSE 0) + 1
                          ELSE self.value_counts[v]]
             values == self.values \cup {value}
         IN IF Cardinality(values) > self.max_values
            THEN [self EXCEPT !.high_cardinality = TRUE,
                              !.values = {},
                              !.value_counts = [v \in {} |-> 0]]
            ELSE [self EXCEPT !.values = values, !.value_counts = counts]

is_high_cardinality(self) == self.high_cardinality

unique_count(self) == Cardinality(self.values)

CappedUniqueTracker_values(self) ==
    IF self.high_cardinality THEN <<>> ELSE <<self.values>>

CappedUniqueTracker_value_counts(self) ==
    IF self.high_cardinality THEN <<>> ELSE <<self.value_counts>>

ColumnStatTracker_new(max_unique) ==
    [ welford |-> WelfordStats_new,
      p2_median |-> P2Quantile_median,
      missing_count |-> 0,
      unique_tracker |-> CappedUniqueTracker_new(max_unique) ]

update_numeric(self, value, raw_value) ==
    [self EXCEPT !.welford = WelfordStats_update(@, value),
                 !.p2_median = P2Quantile_update(@, value),
                 !.unique_tracker = CappedUniqueTracker_add(@, raw_value)]

update_string(self, value) ==
    [self EXCEPT !.unique_tracker = CappedUniqueTracker_add(@, value)]

update_missing(self) == [self EXCEPT !.missing_count = @ + 1]

ColumnStatTracker_count(self) == self.welford.count

(***************************************************************************)
(* types.rs: SafeValue.                                                    *)
(***************************************************************************)
Integer(i) == [type |-> "integer", value |-> i]

Float(f) == [type |-> "float", value |-> f]

ShortString(s) == [type |-> "short_string", value |-> s]

Suppressed(reason) == [type |-> "suppressed", reason |-> reason]

\* from_string with the limit one byte too high: the variant C4 must reject
from_string_limit_off_by_one(s, reason_if_too_long) ==
    IF Len(s) > MAX_SHORT_STRING_LEN + 1
    THEN Suppressed(reason_if_too_long)
    ELSE ShortString(s)

from_string(s, reason_if_too_long) ==
    IF Len(s) > MAX_SHORT_STRING_LEN
    THEN Suppressed(reason_if_too_long)
    ELSE ShortString(s)

(***************************************************************************)
(* privacy/bucketing.rs.                                                   *)
(***************************************************************************)
\* the table with 100 falling into the bucket above its own: the variant C16
\* must reject
bucket_count_hundred_above(n) ==
    CASE n = 0 -> <<"0">>
      [] n = 1 -> <<"1">>
      [] n \in 2..5 -> <<"2", "-", "5">>
      [] n \in 6..10 -> <<"6", "-", "1", "0">>
      [] n \in 11..20 -> <<"1", "1", "-", "2", "0">>
      [] n \in 21..99 -> <<"2", "1", "-", "1", "0", "0">>
      [] n \in 100..1000 -> <<"1", "0", "1", "-", "1", "0", "0", "0">>
      [] OTHER -> <<">", "1", "0", "0", "0">>

bucket_count(n) ==
    CASE n = 0 -> <<"0">>
      [] n = 1 -> <<"1">>
      [] n \in 2..5 -> <<"2", "-", "5">>
      [] n \in 6..10 -> <<"6", "-", "1", "0">>
      [] n \in 11..20 -> <<"1", "1", "-", "2", "0">>
      [] n \in 21..100 -> <<"2", "1", "-", "1", "0", "0">>
      [] n \in 101..1000 -> <<"1", "0", "1", "-", "1", "0", "0", "0">>
      [] OTHER -> <<">", "1", "0", "0", "0">>

safe_count(n, bucket) ==
    IF bucket THEN ShortString(bucket_count(n)) ELSE Integer(n)

(***************************************************************************)
(* privacy/column_names.rs: the name lexicon.                              *)
(***************************************************************************)
PHI_PATTERNS ==
    << <<"n", "a", "m", "e">>, <<"p", "a", "t", "i", "e", "n", "t">>,
       <<"s", "u", "b", "j", "e", "c", "t">>,
       <<"f", "i", "r", "s", "t", "_", "n", "a", "m", "e">>,
       <<"l", "a", "s", "t", "_", "n", "a", "m", "e">>, <<"f", "n", "a", "m", "e">>,
       <<"l", "n", "a", "m", "e">>, <<"s", "u", "r", "n", "a", "m", "e">>,
       <<"g", "i", "v", "e", "n", "_", "n", "a", "m", "e">>,
       <<"i", "n", "i", "t", "i", "a", "l", "s">>, <<"n", "o", "m">>,
       <<"n", "o", "m", "_", "f", "a", "m", "i", "l", "l", "e">>,
       <<"p", "r", "e", "n", "o", "m">>, <<"n", "o", "m", "e">>,
       <<"n", "o", "m", "e", "_", "p", "a", "c", "i", "e", "n", "t", "e">>,
       <<"s", "o", "b", "r", "e", "n", "o", "m", "e">>, <<"m", "r", "n">>,
       <<"m", "e", "d", "i", "c", "a", "l", "_", "r", "e", "c", "o", "r", "d">>,
       <<"c", "h", "a", "r", "t">>,
       <<"c", "h", "a", "r", "t", "_", "n", "u", "m", "b", "e", "r">>, <<"p", "h", "n">>,
       <<"s", "i", "n">>, <<"o", "h", "i", "p">>, <<"a", "h", "c", "i", "p">>, <<"m", "s", "p">>,
       <<"h", "e", "a", "l", "t", "h", "c", "a", "r", "d">>,
       <<"h", "e", "a", "l", "t", "h", "_", "c", "a", "r", "d">>,
       <<"c", "a", "r", "e", "_", "c", "a", "r", "d">>, <<"n", "a", "s">>, <<"n", "a", "m">>,
       <<"n", "u", "m", "e", "r", "o", "_", "a", "s", "s", "u", "r", "a", "n", "c", "e", "_", "m", "a", "l", "a", "d", "i", "e">>,
       <<"r", "a", "m", "q">>, <<"c", "p", "f">>, <<"r", "g">>, <<"s", "u", "s">>,
       <<"c", "a", "r", "t", "a", "o", "_", "s", "u", "s">>, <<"c", "n", "s">>,
       <<"p", "r", "o", "n", "t", "u", "a", "r", "i", "o">>, <<"s", "s", "n">>,
       <<"s", "o", "c", "i", "a", "l", "_", "s", "e", "c", "u", "r", "i", "t", "y">>,
       <<"d", "o", "b">>, <<"b", "i", "r", "t", "h">>,
       <<"b", "i", "r", "t", "h", "d", "a", "y">>,
       <<"d", "a", "t", "e", "_", "o", "f", "_", "b", "i", "r", "t", "h">>,
       <<"a", "d", "m", "i", "s", "s", "i", "o", "n", "_", "d", "a", "t", "e">>,
       <<"d", "i", "s", "c", "h", "a", "r", "g", "e", "_", "d", "a", "t", "e">>,
       <<"d", "e", "a", "t", "h", "_", "d", "a", "t", "e">>,
       <<"d", "a", "t", "e", "_", "o", "f", "_", "d", "e", "a", "t", "h">>, <<"d", "o", "d">>,
       <<"n", "a", "i", "s", "s", "a", "n", "c", "e">>,
       <<"d", "a", "t", "e", "_", "n", "a", "i", "s", "s", "a", "n", "c", "e">>,
       <<"d", "d", "n">>, <<"n", "a", "s", "c", "i", "m", "e", "n", "t", "o">>,
       <<"d", "a", "t", "a", "_", "n", "a", "s", "c", "i", "m", "e", "n", "t", "o">>,
       <<"d", "t", "_", "n", "a", "s", "c">>, <<"d", "n">>,
       <<"a", "d", "d", "r", "e", "s", "s">>, <<"s", "t", "r", "e", "e", "t">>,
       <<"c", "i", "t", "y">>, <<"z", "i", "p">>, <<"p", "o", "s", "t", "a", "l">>,
       <<"a", "d", "r", "e", "s", "s", "e">>, <<"e", "n", "d", "e", "r", "e", "c", "o">>,
       <<"m", "u", "n", "i", "c", "i", "p", "i", "o">>, <<"c", "i", "d", "a", "d", "e">>,
       <<"c", "e", "p">>, <<"u", "f">>, <<"p", "h", "o", "n", "e">>, <<"e", "m", "a", "i", "l">>,
       <<"c", "o", "n", "t", "a", "c", "t">>, <<"f", "a", "x">>,
       <<"c", "o", "u", "r", "r", "i", "e", "l">>,
       <<"t", "e", "l", "e", "p", "h", "o", "n", "e">>, <<"t", "e", "l">>,
       <<"t", "e", "l", "e", "f", "o", "n", "e">>, <<"f", "o", "n", "e">>, <<"c", "e", "l">>,
       <<"c", "e", "l", "u", "l", "a", "r">>, <<"k", "i", "n">>,
       <<"n", "e", "x", "t", "_", "o", "f", "_", "k", "i", "n">>,
       <<"e", "m", "e", "r", "g", "e", "n", "c", "y", "_", "c", "o", "n", "t", "a", "c", "t">>,
       <<"g", "u", "a", "r", "a", "n", "t", "o", "r">>, <<"m", "a", "e">>,
       <<"n", "o", "m", "e", "_", "m", "a", "e">>, <<"p", "a", "i">>,
       <<"n", "o", "m", "e", "_", "p", "a", "i">>, <<"p", "r", "o", "v", "i", "d", "e", "r">>,
       <<"p", "h", "y", "s", "i", "c", "i", "a", "n">>, <<"n", "u", "r", "s", "e">>,
       <<"d", "o", "c", "t", "o", "r">>, <<"a", "t", "t", "e", "n", "d", "i", "n", "g">>,
       <<"r", "e", "s", "i", "d", "e", "n", "t">>, <<"m", "e", "d", "e", "c", "i", "n">>,
       <<"m", "d">>, <<"i", "n", "f", "i", "r", "m", "i", "e", "r">>,
       <<"i", "n", "f", "i", "r", "m", "i", "e", "r", "e">>, <<"m", "e", "d", "i", "c", "o">>,
       <<"e", "n", "f", "e", "r", "m", "e", "i", "r", "o">>,
       <<"e", "n", "f", "e", "r", "m", "e", "i", "r", "a">>, <<"p", "t", "_">>,
       <<"_", "p", "t">>, <<"s", "u", "b", "j">>,
       <<"i", "n", "s", "u", "r", "a", "n", "c", "e">>, <<"p", "o", "l", "i", "c", "y">>,
       <<"p", "o", "l", "i", "c", "y", "_", "n", "u", "m", "b", "e", "r">>,
       <<"b", "e", "n", "e", "f", "i", "c", "i", "a", "r", "y">>,
       <<"m", "e", "m", "b", "e", "r", "_", "i", "d">>,
       <<"s", "u", "b", "s", "c", "r", "i", "b", "e", "r">>,
       <<"g", "r", "o", "u", "p", "_", "n", "u", "m", "b", "e", "r">>,
       <<"p", "l", "a", "n", "_", "i", "d">>, <<"a", "c", "c", "o", "u", "n", "t">>,
       <<"a", "c", "c", "t">>,
       <<"a", "c", "c", "o", "u", "n", "t", "_", "n", "u", "m", "b", "e", "r">>,
       <<"b", "i", "l", "l", "i", "n", "g">>, <<"l", "i", "c", "e", "n", "s", "e">>,
       <<"l", "i", "c", "e", "n", "s", "e", "_", "n", "u", "m", "b", "e", "r">>,
       <<"c", "e", "r", "t", "i", "f", "i", "c", "a", "t", "e">>,
       <<"c", "e", "r", "t", "_", "n", "u", "m", "b", "e", "r">>,
       <<"c", "r", "e", "d", "e", "n", "t", "i", "a", "l">>, <<"v", "i", "n">>,
       <<"v", "e", "h", "i", "c", "l", "e">>,
       <<"l", "i", "c", "e", "n", "s", "e", "_", "p", "l", "a", "t", "e">>,
       <<"p", "l", "a", "t", "e", "_", "n", "u", "m", "b", "e", "r">>,
       <<"s", "e", "r", "i", "a", "l">>,
       <<"s", "e", "r", "i", "a", "l", "_", "n", "u", "m", "b", "e", "r">>,
       <<"d", "e", "v", "i", "c", "e", "_", "i", "d">>, <<"i", "m", "e", "i">>,
       <<"u", "d", "i", "d">>, <<"m", "a", "c", "_", "a", "d", "d", "r", "e", "s", "s">>,
       <<"u", "r", "l">>, <<"w", "e", "b", "s", "i", "t", "e">>,
       <<"w", "e", "b", "_", "a", "d", "d", "r", "e", "s", "s">>,
       <<"h", "o", "m", "e", "p", "a", "g", "e">>,
       <<"i", "p", "_", "a", "d", "d", "r", "e", "s", "s">>, <<"i", "p", "v", "4">>,
       <<"i", "p", "v", "6">>, <<"f", "i", "n", "g", "e", "r", "p", "r", "i", "n", "t">>,
       <<"b", "i", "o", "m", "e", "t", "r", "i", "c">>,
       <<"v", "o", "i", "c", "e", "p", "r", "i", "n", "t">>, <<"r", "e", "t", "i", "n", "a">>,
       <<"i", "r", "i", "s", "_", "s", "c", "a", "n">>, <<"f", "a", "c", "e", "_", "i", "d">>,
       <<"p", "h", "o", "t", "o">>, <<"p", "h", "o", "t", "o", "g", "r", "a", "p", "h">>,
       <<"p", "i", "c", "t", "u", "r", "e">>, <<"h", "e", "a", "d", "s", "h", "o", "t">>,
       <<"f", "a", "c", "e", "_", "i", "m", "a", "g", "e">>,
       <<"p", "o", "r", "t", "r", "a", "i", "t">> >>

PHI_RECODE ==
    << <<"s", "i", "t", "e">>, <<"h", "o", "s", "p", "i", "t", "a", "l">>,
       <<"c", "l", "i", "n", "i", "c">>, <<"f", "a", "c", "i", "l", "i", "t", "y">>,
       <<"c", "e", "n", "t", "e", "r">>, <<"l", "o", "c", "a", "t", "i", "o", "n">>,
       <<"h", "o", "p", "i", "t", "a", "l">>, <<"c", "l", "i", "n", "i", "q", "u", "e">>,
       <<"c", "e", "n", "t", "r", "e">>,
       <<"e", "t", "a", "b", "l", "i", "s", "s", "e", "m", "e", "n", "t">> >>

PHI_WARN_ONLY ==
    << <<"i", "d">>, <<"i", "d", "e", "n", "t", "i", "f", "i", "e", "r">>,
       <<"c", "o", "d", "e">>, <<"n", "u", "m", "b", "e", "r">>,
       <<"e", "n", "c", "o", "u", "n", "t", "e", "r">>, <<"v", "i", "s", "i", "t">>,
       <<"a", "d", "m", "i", "s", "s", "i", "o", "n">>, <<"c", "a", "s", "e">> >>

\* ColumnNameResult; Option<String>: <<>> is None, <<p>> is Some(p).  The
\* warning text is determined by its kind and the pattern it quotes.
ColumnNameResult_safe ==
    [classification |-> "Safe", matched_pattern |-> <<>>, warning |-> <<>>]

ColumnNameResult_phi(pattern) ==
    [ classification |-> "Phi",
      matched_pattern |-> <<pattern>>,
      warning |-> <<[kind |-> "values suppressed", pattern |-> pattern]>> ]

ColumnNameResult_recode(pattern) ==
    [ classification |-> "Recode",
      matched_pattern |-> <<pattern>>,
      warning |-> <<[kind |-> "values will be recoded", pattern |-> pattern]>> ]

ColumnNameResult_warning(pattern) ==
    [ classification |-> "Warning",
      matched_pattern |-> <<pattern>>,
      warning |-> <<[kind |-> "review recommended", pattern |-> pattern]>> ]

normalize_column_name(name) ==
    [i \in 1..Len(name) |-> IF name[i] \in {"-", " ", "."} THEN "_" ELSE name[i]]

matches_pattern(normalized_name, pattern) ==
    IF pattern[Len(pattern)] = "_" THEN starts_with(normalized_name, pattern)
    ELSE IF pattern[1] = "_" THEN ends_with(normalized_name, pattern)
    ELSE \/ normalized_name = pattern
         \/ InSeq(pattern, split(normalized_name, "_"))
         \/ starts_with(normalized_name, pattern \o <<"_">>)
         \/ ends_with(normalized_name, <<"_">> \o pattern)
         \/ contains(normalized_name, <<"_">> \o pattern \o <<"_">>)

\* index of the first pattern of the list that matches, 0 if none
FirstMatch(name_normalized, patterns) ==
    LET hits == {i \in 1..Len(patterns) : matches_pattern(name_normalized, patterns[i])}
    IN IF hits = {} THEN 0 ELSE CHOOSE i \in hits : \A j \in hits : i <= j

\* the Warn list tested before the Recode list: the variant C18 must reject
check_column_name_warn_before_recode(name) ==
    LET name_lower == to_lowercase(name)
        name_normalized == normalize_column_name(name_lower)
        phi == FirstMatch(name_normalized, PHI_PATTERNS)
        recode == FirstMatch(name_normalized, PHI_RECODE)
        warn == FirstMatch(name_normalized, PHI_WARN_ONLY)
    IN IF phi # 0 THEN ColumnNameResult_phi(PHI_PATTERNS[phi])
       ELSE IF warn # 0 THEN ColumnNameResult_warning(PHI_WARN_ONLY[warn])
       ELSE IF recode # 0 THEN ColumnNameResult_recode(PHI_RECODE[recode])
       ELSE ColumnNameResult_safe

check_column_name(name) ==
    LET name_lower == to_lowercase(name)
        name_normalized == normalize_column_name(name_lower)
        phi == FirstMatch(name_normalized, PHI_PATTERNS)
        recode == FirstMatch(name_normalized, PHI_RECODE)
        warn == FirstMatch(name_normalized, PHI_WARN_ONLY)
    IN IF phi # 0 THEN ColumnNameResult_phi(PHI_PATTERNS[phi])
       ELSE IF recode # 0 THEN ColumnNameResult_recode(PHI_RECODE[recode])
       ELSE IF warn # 0 THEN ColumnNameResult_warning(PHI_WARN_ONLY[warn])
       ELSE ColumnNameResult_safe

(***************************************************************************)
(* privacy/value_patterns.rs.  A regular expression of the source is a     *)
(* sequence of items, each a character class repeated min..max times,      *)
(* anchored at both ends; groups and alternations are written out.         *)
(***************************************************************************)
InClass(c, item) ==
    CASE item.cls = "lit" -> c = item.ch
      [] item.cls = "digit" -> IsDigit(c)
      [] item.cls = "alpha" -> IsAlpha(c)
      [] item.cls = "alnum" -> IsAlnum(c)
      [] item.cls = "hex" -> IsHexDigit(c)
      [] item.cls = "email_local" -> IsAlnum(c) \/ c \in {".", "_", "%", "+", "-"}
      [] item.cls = "email_domain" -> IsAlnum(c) \/ c \in {".", "-"}
      [] item.cls = "phone_sep" -> c \in {"-", "."} \/ IsWhitespace(c)
      [] item.cls = "mac_sep" -> c \in {":", "-"}
      [] item.cls = "space" -> IsWhitespace(c)
      [] item.cls = "non_space" -> ~IsWhitespace(c)
      [] OTHER -> FALSE

Cls(cls, min, max) == [cls |-> cls, ch |-> "", min |-> min, max |-> max]

Lit(c) == [cls |-> "lit", ch |-> c, min |-> 1, max |-> 1]

OptLit(c) == [cls |-> "lit", ch |-> c, min |-> 0, max |-> 1]

\* max of an unbounded repetition (+, {n,})
Unbounded == 1000000

\* number of characters from pos on that are in the class of item, at most max
RECURSIVE RunLength(_, _, _, _)
RunLength(s, pos, item, max) ==
    IF max = 0 \/ pos > Len(s) \/ ~InClass(s[pos], item) THEN 0
    ELSE 1 + RunLength(s, pos + 1, item, max - 1)

RECURSIVE MatchFrom(_, _, _, _)
MatchFrom(s, pos, items, k) ==
    IF k > Len(items) THEN pos = Len(s) + 1
    ELSE LET run == RunLength(s, pos, items[k], items[k].max)
         IN \E c \in items[k].min..run : MatchFrom(s, pos + c, items, k + 1)

is_match(items, s) == MatchFrom(s, 1, items, 1)

RECURSIVE RepeatItems(_, _)
RepeatItems(items, n) == IF n = 0 THEN <<>> ELSE items \o RepeatItems(items, n - 1)

\* ^[a-zA-Z0-9._%+-]+@[a-zA-Z0-9.-]+\.[a-zA-Z]{2,}$
EMAIL_PATTERN ==
    << Cls("email_local", 1, Unbounded), Lit("@"), Cls("email_domain", 1, Unbounded),
       Lit("."), Cls("alpha", 2, Unbounded) >>

\* ^\(?\d{3}\)?[-.\s]?\d{3}[-.\s]?\d{4}$
US_PHONE_PATTERN ==
    << OptLit("("), Cls("digit", 3, 3), OptLit(")"), Cls("phone_sep", 0, 1),
       Cls("digit", 3, 3), Cls("phone_sep", 0, 1), Cls("digit", 4, 4) >>

\* ^\d{5}(-\d{4})?$
US_ZIP_PATTERN(s) ==
    \/ is_match(<<Cls("digit", 5, 5)>>, s)
    \/ is_match(<<Cls("digit", 5, 5), Lit("-"), Cls("digit", 4, 4)>>, s)

\* ^[A-Za-z]\d[A-Za-z]\s?\d[A-Za-z]\d$
CANADA_POSTAL_PATTERN ==
    << Cls("alpha", 1, 1), Cls("digit", 1, 1), Cls("alpha", 1, 1), Cls("space", 0, 1),
       Cls("digit", 1, 1), Cls("alpha", 1, 1), Cls("digit", 1, 1) >>

\* ^\d{3}-?\d{2}-?\d{4}$
SSN_PATTERN ==
    << Cls("digit", 3, 3), OptLit("-"), Cls("digit", 2, 2), OptLit("-"),
       Cls("digit", 4, 4) >>

\* ^[A-Za-z0-9]{10,}$
LONG_ID_PATTERN == << Cls("alnum", 10, Unbounded) >>

\* ^https?://[^\s]+$
URL_PATTERN ==
    << Lit("h"), Lit("t"), Lit("t"), Lit("p"), OptLit("s"), Lit(":"), Lit("/"), Lit("/"),
       Cls("non_space", 1, Unbounded) >>

\* ^\d{1,3}\.\d{1,3}\.\d{1,3}\.\d{1,3}$
IPV4_PATTERN ==
    << Cls("digit", 1, 3), Lit("."), Cls("digit", 1, 3), Lit("."),
       Cls("digit", 1, 3), Lit("."), Cls("digit", 1, 3) >>

HexGroupColon == << Cls("hex", 1, 4), Lit(":") >>

ColonHexGroup == << Lit(":"), Cls("hex", 1, 4) >>

\* ^([0-9a-fA-F]{1,4}:){7}[0-9a-fA-F]{1,4}$|^([0-9a-fA-F]{1,4}:){1,7}:$
\*   |^::[0-9a-fA-F]{1,4}(:[0-9a-fA-F]{1,4}){0,6}$
IPV6_PATTERN(s) ==
    \/ is_match(RepeatItems(HexGroupColon, 7) \o <<Cls("hex", 1, 4)>>, s)
    \/ \E r \in 1..7 : is_match(RepeatItems(HexGroupColon, r) \o <<Lit(":")>>, s)
    \/ \E r \in 0..6 :
          is_match(<<Lit(":"), Lit(":"), Cls("hex", 1, 4)>> \o RepeatItems(ColonHexGroup, r), s)

\* ^([0-9A-Fa-f]{2}[:-]){5}[0-9A-Fa-f]{2}$
MAC_ADDRESS_PATTERN ==
    RepeatItems(<<Cls("hex", 2, 2), Cls("mac_sep", 1, 1)>>, 5) \o <<Cls("hex", 2, 2)>>

is_suspicious_long_id(value) ==
    /\ is_match(LONG_ID_PATTERN, value)
    /\ \E i \in 1..Len(value) : IsAlpha(value[i])
    /\ \E i \in 1..Len(value) : IsDigit(value[i])

NAME_LIST ==
    << <<"s", "m", "i", "t", "h">>, <<"j", "o", "h", "n">>, <<"m", "a", "r", "i", "a">>,
       <<"t", "r", "e", "m", "b", "l", "a", "y">>, <<"m", "a", "r", "y">>,
       <<"j", "o", "h", "n", "s", "o", "n">>, <<"j", "o", "s", "e">>,
       <<"s", "i", "l", "v", "a">>, <<"m", "u", "h", "a", "m", "m", "a", "d">>,
       <<"a", "a", "l", "i", "y", "a", "h">> >>

CLINICAL_TERMS ==
    << <<"t", "r", "e", "a", "t", "m", "e", "n", "t">>, <<"c", "o", "n", "t", "r", "o", "l">>,
       <<"p", "l", "a", "c", "e", "b", "o">>, <<"b", "a", "s", "e", "l", "i", "n", "e">> >>

\* privacy/name_lists.rs: every space-separated token is a listed given
\* name or surname, and none is a clinical term
is_likely_name(value) ==
    LET tokens == split(value, " ")
    IN /\ \A i \in 1..Len(tokens) : InSeq(to_lowercase(tokens[i]), NAME_LIST)
       /\ \A i \in 1..Len(tokens) : ~InSeq(to_lowercase(tokens[i]), CLINICAL_TERMS)

ValuePatternResult_safe == [is_phi |-> FALSE, matched_pattern |-> <<>>]

ValuePatternResult_phi(pattern) == [is_phi |-> TRUE, matched_pattern |-> <<pattern>>]

check_value_pattern(value) ==
    LET trimmed == trim(value)
    IN IF trimmed = <<>> THEN ValuePatternResult_safe
       ELSE IF is_match(EMAIL_PATTERN, trimmed) THEN ValuePatternResult_phi("email")
       ELSE IF is_match(US_PHONE_PATTERN, trimmed) THEN ValuePatternResult_phi("phone")
       ELSE IF is_match(SSN_PATTERN, trimmed) THEN ValuePatternResult_phi("ssn")
       ELSE IF US_ZIP_PATTERN(trimmed) THEN ValuePatternResult_phi("zip")
       ELSE IF is_match(CANADA_POSTAL_PATTERN, trimmed) THEN ValuePatternResult_phi("postal")
       ELSE IF is_suspicious_long_id(trimmed) THEN ValuePatternResult_phi("long_id")
       ELSE IF is_match(URL_PATTERN, trimmed) THEN ValuePatternResult_phi("url")
       ELSE IF is_match(IPV4_PATTERN, trimmed) THEN ValuePatternResult_phi("ipv4")
       ELSE IF IPV6_PATTERN(trimmed) THEN ValuePatternResult_phi("ipv6")
       ELSE IF is_match(MAC_ADDRESS_PATTERN, trimmed)
            THEN ValuePatternResult_phi("mac_address")
       ELSE IF is_likely_name(trimmed) THEN ValuePatternResult_phi("name")
       ELSE ValuePatternResult_safe

(***************************************************************************)
(* privacy/suppression.rs.  Option<SuppressionReason>: <<>> is None.       *)
(***************************************************************************)
\* the k-anonymity clause firing at count = k as well: the variant C15 must
\* reject
should_suppress_value_at_threshold(value, count, k, column_classification, phi_pattern) ==
    IF column_classification = "Phi"
    THEN <<[kind |-> "PhiColumn",
            pattern |-> IF phi_pattern = <<>> THEN "unknown" ELSE phi_pattern[1]]>>
    ELSE IF Len(value) > MAX_SHORT_STRING_LEN
    THEN <<[kind |-> "TooLong", length |-> Len(value), max |-> MAX_SHORT_STRING_LEN]>>
    ELSE IF count <= k
    THEN <<[kind |-> "BelowKThreshold", count |-> count, k |-> k]>>
    ELSE IF check_value_pattern(value).is_phi
    THEN <<[kind |-> "PhiValue", pattern |-> check_value_pattern(value).matched_pattern[1]]>>
    ELSE <<>>

should_suppress_value(value, count, k, column_classification, phi_pattern) ==
    IF column_classification = "Phi"
    THEN <<[kind |-> "PhiColumn",
            pattern |-> IF phi_pattern = <<>> THEN "unknown" ELSE phi_pattern[1]]>>
    ELSE IF Len(value) > MAX_SHORT_STRING_LEN
    THEN <<[kind |-> "TooLong", length |-> Len(value), max |-> MAX_SHORT_STRING_LEN]>>
    ELSE IF count < k
    THEN <<[kind |-> "BelowKThreshold", count |-> count, k |-> k]>>
    ELSE IF check_value_pattern(value).is_phi
    THEN <<[kind |-> "PhiValue", pattern |-> check_value_pattern(value).matched_pattern[1]]>>
    ELSE <<>>

safe_string_value(value, count, k, column_classification, phi_pattern) ==
    LET reason == should_suppress_value(value, count, k, column_classification, phi_pattern)
    IN IF reason # <<>> THEN Suppressed(reason[1]) ELSE ShortString(value)

(***************************************************************************)
(* privacy/recoding.rs.                                                    *)
(***************************************************************************)
ValueRecoder_new(prefix) ==
    [mappings |-> [o \in {} |-> <<>>], counter |-> 0, prefix |-> prefix]

\* ordinary base 26 with A as zero (26 is BA): the variant C6 must reject
RECURSIVE index_to_label_positional(_)
index_to_label_positional(index) ==
    LET letter == <<UpperLetters[(index % 26) + 1]>>
    IN IF index < 26 THEN letter
       ELSE index_to_label_positional(index \div 26) \o letter

RECURSIVE index_to_label(_)
index_to_label(index) ==
    LET letter == <<UpperLetters[(index % 26) + 1]>>
    IN IF index < 26 THEN letter
       ELSE index_to_label((index \div 26) - 1) \o letter

\* generate_label without the advance of the counter: the variant C7 must
\* reject
generate_label_stale_counter(self) ==
    [ label |-> self.prefix \o <<"_">> \o index_to_label(self.counter),
      self |-> self ]

\* generate_label: the label of the current counter, and the recoder with
\* the counter advanced
generate_label(self) ==
    [ label |-> self.prefix \o <<"_">> \o index_to_label(self.counter),
      self |-> [self EXCEPT !.counter = @ + 1] ]

\* the recoder after recode(original)
ValueRecoder_recode(self, original) ==
    IF original \in DOMAIN self.mappings THEN self
    ELSE LET generated == generate_label(self)
         IN [generated.self EXCEPT
               !.mappings = [o \in DOMAIN self.mappings \cup {original} |->
                               IF o = original THEN generated.label
                               ELSE self.mappings[o]]]

\* the label recode(original) returns
RecodeResult(self, original) ==
    IF original \in DOMAIN self.mappings THEN self.mappings[original]
    ELSE generate_label(self).label

\* the set of (label, original) pairs collected into the reverse HashMap:
\* a later pair with the same label replaces an earlier one
get_reverse_mappings(self) ==
    LET labels == {self.mappings[o] : o \in DOMAIN self.mappings}
    IN [l \in labels |-> {o \in DOMAIN self.mappings : self.mappings[o] = l}]

ValueRecoder_count(self) == Cardinality(DOMAIN self.mappings)

\* readers/csv.rs
determine_recode_prefix(column_name) ==
    LET lower == to_lowercase(column_name)
    IN IF contains(lower, <<"h", "o", "s", "p", "i", "t", "a", "l">>) THEN <<"H", "o", "s", "p", "i", "t", "a", "l">>
       ELSE IF contains(lower, <<"c", "l", "i", "n", "i", "c">>) THEN <<"C", "l", "i", "n", "i", "c">>
       ELSE IF contains(lower, <<"f", "a", "c", "i", "l", "i", "t", "y">>) THEN <<"F", "a", "c", "i", "l", "i", "t", "y">>
       ELSE IF \/ contains(lower, <<"c", "e", "n", "t", "e", "r">>)
               \/ contains(lower, <<"c", "e", "n", "t", "r", "e">>) THEN <<"C", "e", "n", "t", "e", "r">>
       ELSE IF contains(lower, <<"l", "o", "c", "a", "t", "i", "o", "n">>) THEN <<"L", "o", "c", "a", "t", "i", "o", "n">>
       ELSE <<"S", "i", "t", "e">>

\* RecodeRegistry: recoders and column names keyed by column index
RecodeRegistry_new == [recoders |-> [c \in {} |-> 0], column_names |-> [c \in {} |-> 0]]

register_column(self, column_index, column_name, prefix) ==
    [ recoders |-> [c \in DOMAIN self.recoders \cup {column_index} |->
                      IF c = column_index THEN ValueRecoder_new(prefix)
                      ELSE self.recoders[c]],
      column_names |-> [c \in DOMAIN self.column_names \cup {column_index} |->
                          IF c = column_index THEN column_name
                          ELSE self.column_names[c]] ]

is_recoded(self, column_index) == column_index \in DOMAIN self.recoders

\* the registry after recode(column_index, original)
RecodeRegistry_recode(self, column_index, original) ==
    IF column_index \in DOMAIN self.recoders
    THEN [self EXCEPT !.recoders[column_index] = ValueRecoder_recode(@, original)]
    ELSE self

\* ascending order of strings (Ord for String: bytewise, shorter prefix first)
CharOrder ==
    << " ", "-", ".", "/", "0", "1", "2", "3", "4", "5", "6", "7", "8", "9", ":", "@" >>
    \o UpperLetters \o <<"_">> \o LowerLetters

CharRank(c) == CHOOSE i \in 1..Len(CharOrder) : CharOrder[i] = c

StrLt(a, b) ==
    \E i \in 1..(Len(b)) :
       /\ i <= Len(a) + 1
       /\ \A j \in 1..(i - 1) : a[j] = b[j]
       /\ \/ i = Len(a) + 1
          \/ CharRank(a[i]) < CharRank(b[i])

\* Option<Vec<String>>: <<>> is None, <<v>> is Some(v).  The Vec holds one
\* label per mapping, so equal labels appear as often as they are mapped.
RECURSIVE LabelsOf(_, _)
LabelsOf(mappings, originals) ==
    IF originals = {} THEN <<>>
    ELSE LET o == CHOOSE x \in originals :
                     \A y \in originals \ {x} :
                        \/ StrLt(mappings[x], mappings[y])
                        \/ mappings[x] = mappings[y]
         IN <<mappings[o]>> \o LabelsOf(mappings, originals \ {o})

get_recoded_values(self, column_index) ==
    IF column_index \in DOMAIN self.recoders
    THEN <<LabelsOf(self.recoders[column_index].mappings,
                    DOMAIN self.recoders[column_index].mappings)>>
    ELSE <<>>

has_recodings(self) ==
    \E c \in DOMAIN self.recoders : ValueRecoder_count(self.recoders[c]) > 0

(***************************************************************************)
(* readers/excel.rs: typed cells (calamine Data).                          *)
(***************************************************************************)
DataEmpty == [tag |-> "Empty"]

DataString(s) == [tag |-> "String", s |-> s]

DataFloat(f) == [tag |-> "Float", f |-> f]

DataInt(i) == [tag |-> "Int", i |-> i]

DataBool(b) == [tag |-> "Bool", b |-> b]

DataDateTime(serial) == [tag |-> "DateTime", f |-> serial]

DataDateTimeIso(s) == [tag |-> "DateTimeIso", s |-> s]

DataDurationIso(s) == [tag |-> "DurationIso", s |-> s]

\* e is the Debug name of the CellErrorType
DataError(e) == [tag |-> "Error", e |-> e]

\* x as i64: truncation toward zero
TruncF64(x) == IF x.n >= 0 THEN x.n \div x.d ELSE -((-x.n) \div x.d)

\* the digits of the fraction num/den (0 <= num < den, den a product of
\* 2s and 5s), without trailing zeros
RECURSIVE FractionDigits(_, _)
FractionDigits(num, den) ==
    IF num = 0 THEN <<>>
    ELSE <<DigitChars[((10 * num) \div den) + 1]>> \o FractionDigits((10 * num) % den, den)

\* f64::to_string of a finite decimal: no exponent, no trailing ".0"
F64ToString(x) ==
    LET a == Abs(x.n)
        int == NatToString(a \div x.d)
        frac == FractionDigits(a % x.d, x.d)
    IN (IF x.n < 0 THEN <<"-">> ELSE <<>>)
       \o int \o (IF frac = <<>> THEN <<>> ELSE <<".">> \o frac)

ZeroPad(n, width) ==
    LET s == NatToString(n)
    IN IF Len(s) >= width THEN s ELSE Repeat("0", width - Len(s)) \o s

\* days since 1899-12-30 to "%Y-%m-%d" (proleptic Gregorian calendar),
\* for dates chrono can represent
excel_serial_to_date_string(serial) ==
    LET days == TruncF64(serial)
        z == days - 25569 + 719468
        era == z \div 146097
        doe == z - era * 146097
        yoe == (doe - doe \div 1460 + doe \div 36524 - doe \div 146096) \div 365
        doy == doe - (365 * yoe + yoe \div 4 - yoe \div 100)
        mp == (5 * doy + 2) \div 153
        d == doy - (153 * mp + 2) \div 5 + 1
        m == IF mp < 10 THEN mp + 3 ELSE mp - 9
        y == yoe + era * 400 + (IF m <= 2 THEN 1 ELSE 0)
    IN ZeroPad(y, 4) \o <<"-">> \o ZeroPad(m, 2) \o <<"-">> \o ZeroPad(d, 2)

StrTrue == <<"t", "r", "u", "e">>

StrFalse == <<"f", "a", "l", "s", "e">>

data_to_string(dt) ==
    CASE dt.tag = "Empty" -> <<>>
      [] dt.tag = "String" -> dt.s
      [] dt.tag = "Float" -> F64ToString(dt.f)
      [] dt.tag = "Int" -> IntToString(dt.i)
      [] dt.tag = "Bool" -> IF dt.b THEN StrTrue ELSE StrFalse
      [] dt.tag = "DateTime" -> excel_serial_to_date_string(dt.f)
      [] dt.tag = "DateTimeIso" -> dt.s
      [] dt.tag = "DurationIso" -> dt.s
      [] OTHER -> <<"#">> \o dt.e

is_missing_data(dt) ==
    CASE dt.tag = "Empty" -> TRUE
      [] dt.tag = "String" -> is_missing(dt.s)
      [] dt.tag = "Error" -> TRUE
      [] OTHER -> FALSE

\* Option<f64>
get_numeric_value(dt) ==
    CASE dt.tag = "Float" -> <<dt.f>>
      [] dt.tag = "Int" -> <<F64(dt.i)>>
      [] dt.tag = "DateTime" -> <<dt.f>>
      [] OTHER -> <<>>

\* Option<DType>
infer_type_from_data(dt) ==
    CASE dt.tag = "Empty" -> <<>>
      [] dt.tag = "String" -> <<"String">>
      [] dt.tag = "Float" -> <<"Numeric">>
      [] dt.tag = "Int" -> <<"Integer">>
      [] dt.tag = "Bool" -> <<"Boolean">>
      [] dt.tag \in {"DateTime", "DateTimeIso"} -> <<"Date">>
      [] dt.tag = "DurationIso" -> <<"Numeric">>
      [] OTHER -> <<>>

(***************************************************************************)
(* The inputs of an extraction: a reader, a header, the cells of the       *)
(* column and the processing options.                                      *)
(***************************************************************************)
HdrName == <<"n", "a", "m", "e">>

HdrSite == <<"s", "i", "t", "e">>

HdrId == <<"i", "d">>

HdrAge == <<"a", "g", "e">>

CellNA == <<"N", "A">>

CellOne == <<"1">>

CellTwo == <<"2">>

CellText == <<"a", "b">>

CellEmail == <<"a", "@", "b", ".", "c", "o">>

\* 33 bytes: one more than MAX_SHORT_STRING_LEN
LongText == Repeat("x", MAX_SHORT_STRING_LEN + 1)

Headers == {HdrName, HdrSite, HdrId, HdrAge, LongText}

CsvCells == {CellNA, CellOne, CellTwo, CellText, CellEmail, LongText}

ExcelCells ==
    { DataEmpty, DataString(CellText), DataString(LongText), DataString(CellEmail),
      DataInt(1), DataFloat(Frac(3, 2)) }

KValues == {1, 2}

\* ProcessingOptions::default()
ProcessingOptions_default ==
    [ k_anonymity |-> DEFAULT_K_ANONYMITY,
      bucket_counts |-> TRUE,
      exact_counts |-> FALSE,
      exact_median |-> FALSE,
      hash_file |-> TRUE,
      relaxed |-> FALSE ]

\* the ProcessingOptions the extractions are called with: the threshold and
\* the bucketing vary, the other fields keep their defaults
OptionValues ==
    { [ProcessingOptions_default EXCEPT !.k_anonymity = k, !.bucket_counts = b] :
          k \in KValues, b \in BOOLEAN }

\* sequences over S of length at most n
SeqsUpTo(S, n) == UNION {[1..m -> S] : m \in 0..n}

\* the orders in which a HashSet may yield its elements
Orders(S) ==
    {f \in [1..Cardinality(S) -> S] : \A i, j \in 1..Cardinality(S) : i # j => f[i] # f[j]}

\* the column is the only column of its sheet
ColIdx == 0

NoColumn == [classification |-> "none"]

VARIABLES
    reader,           \* "csv" or "excel": the DataReader create_reader built
    header,           \* the column's header
    cells,            \* the column's cells, row by row
    options,          \* the ProcessingOptions of the call, bound where first read
    pc,               \* position of the reader in read_with_recoding / process_sheet
    pos,              \* number of records consumed in the current pass
    row_count,        \* csv: records counted in pass 1
    column_check,     \* csv: column_checks[ColIdx]
    recode_registry,  \* csv: the RecodeRegistry
    type_inferencer,  \* type_inferencers[ColIdx]
    stat_tracker,     \* stat_trackers[ColIdx]
    column,           \* the ColumnSchema emitted for the column
    sheet_row_count,  \* SheetSchema.row_count
    previous,         \* <<c>>: the ColumnSchema c an earlier extraction of the same
                      \* input emitted; <<>> during the first extraction
    recoder,          \* a ValueRecoder driven on its own
    first_seen,       \* the originals recoder was called with, in first-call order
    first_label,      \* the label recode returned at the first call with each original
    last_call,        \* <<[original, label]>> of the latest recode call, <<>> before it
    type_trail,       \* a TypeInferencer driven on its own: the types it has held
                      \* since its initial inference, each change appended
    unique_tracker,   \* a CappedUniqueTracker driven on its own
    added,            \* the values unique_tracker.add was called with, in call order
    call,             \* a function called on its own: <<arguments>>, <<>> where none is
    result            \* <<[fn, value]>>: what the function fn returned for call

pipeline_vars ==
    << reader, header, cells, options, pc, pos, row_count, column_check,
       recode_registry, type_inferencer, stat_tracker, column, sheet_row_count >>

recoder_vars == << recoder, first_seen, first_label, last_call >>

unit_vars == << type_trail, unique_tracker, added, call, result >>

vars == << pipeline_vars, previous, recoder_vars, unit_vars >>

\* the state of an extraction before its first step
ExtractionStart ==
    /\ pc = "start"
    /\ pos = 0
    /\ row_count = 0
    /\ column_check = ColumnNameResult_safe
    /\ recode_registry = RecodeRegistry_new
    /\ type_inferencer = TypeInferencer_new(SampleCap)
    /\ stat_tracker = ColumnStatTracker_new(UniqueCap)
    /\ column = NoColumn
    /\ sheet_row_count = Integer(0)

\* the objects driven on their own, before their first call
UnitStart ==
    /\ type_trail = <<>>
    /\ unique_tracker = CappedUniqueTracker_new(UniqueCap)
    /\ added = <<>>
    /\ call = <<>>
    /\ result = <<>>

\* no recode call made yet on a recoder with the given prefix
RecoderStart(prefix) ==
    /\ recoder = ValueRecoder_new(prefix)
    /\ first_seen = <<>>
    /\ first_label = [o \in {} |-> <<>>]
    /\ last_call = <<>>

Init ==
    /\ reader \in {"csv", "excel"}
    /\ header \in Headers
    /\ cells \in SeqsUpTo(IF reader = "csv" THEN CsvCells ELSE ExcelCells, MaxRows)
    /\ options = ProcessingOptions_default
    /\ ExtractionStart
    /\ previous = <<>>
    /\ RecoderStart(<<>>)
    /\ UnitStart
(***************************************************************************)
(* Assembly of the ColumnSchema, shared shape of both readers.             *)
(* Options are <<>> (None) or <<x>> (Some(x)).  std_dev is the square root *)
(* of the variance, kept as [sqrt |-> variance].                           *)
(***************************************************************************)
WelfordStats_std_dev(self) ==
    IF WelfordStats_variance(self) = <<>> THEN <<>>
    ELSE <<[sqrt |-> WelfordStats_variance(self)[1]]>>

\* ColumnStats after "Build stats": counts, and the numeric summaries for
\* Integer and Numeric columns
BuildStats(count, dtype, tracker, opts) ==
    LET numeric == dtype \in {"Integer", "Numeric"}
    IN [ count |-> <<safe_count(count, opts.bucket_counts)>>,
         missing_count |-> <<safe_count(tracker.missing_count, opts.bucket_counts)>>,
         min |-> IF numeric /\ tracker.welford.min # <<>>
                 THEN <<Float(tracker.welford.min[1])>> ELSE <<>>,
         max |-> IF numeric /\ tracker.welford.max # <<>>
                 THEN <<Float(tracker.welford.max[1])>> ELSE <<>>,
         mean |-> IF numeric THEN WelfordStats_mean(tracker.welford) ELSE <<>>,
         std_dev |-> IF numeric THEN WelfordStats_std_dev(tracker.welford) ELSE <<>>,
         median |-> IF numeric THEN P2Quantile_quantile(tracker.p2_median) ELSE <<>>,
         unique_count |-> <<>> ]

\* the values without the k-anonymity test: the variant C2 must reject
ListableValues_without_threshold(tracker, opts) ==
    IF tracker.unique_tracker.high_cardinality THEN {}
    ELSE {value \in tracker.unique_tracker.values :
            /\ ~check_value_pattern(value).is_phi
            /\ Len(value) <= 32}

\* "Build unique values list" of a Safe or Warning column, the tests of the
\* loop body: the values of the tracker that pass the k-anonymity, the
\* value-pattern and the length test
ListableValues(tracker, opts) ==
    IF tracker.unique_tracker.high_cardinality THEN {}
    ELSE LET counts == tracker.unique_tracker.value_counts
         IN {value \in tracker.unique_tracker.values :
               /\ (IF value \in DOMAIN counts THEN counts[value] ELSE 1) >= opts.k_anonymity
               /\ ~check_value_pattern(value).is_phi
               /\ Len(value) <= 32}

\* "Build unique values list" of a Safe or Warning column: the values that
\* pass the tests are pushed in the order the HashSet yields them; order is
\* that order, the values the tests reject left out
SafeUniqueValues(tracker, opts, order) ==
    IF tracker.unique_tracker.high_cardinality THEN <<>>
    ELSE LET Keep(value) == value \in ListableValues(tracker, opts)
             safe_values == SelectSeq(order, Keep)
         IN IF safe_values # <<>>
            THEN <<[i \in 1..Len(safe_values) |-> ShortString(safe_values[i])]>>
            ELSE <<>>

\* the options an extraction may be called with: a repeated extraction is
\* called with the options of the first
CallOptions == IF previous = <<>> THEN OptionValues ELSE {options}

\* readers/csv.rs, "Build column schemas", one iteration of the loop
CsvColumnSchema(col_idx, hdr, name_check, inferencer, tracker, registry, opts, order) ==
    LET dtype == inferred_type(inferencer)
        sealed == is_high_cardinality(tracker.unique_tracker)
        classification ==
            IF sealed /\ name_check.classification # "Recode"
                      /\ name_check.classification # "Phi"
            THEN "HighCardinality"
            ELSE name_check.classification
        name_value ==
            IF classification = "Phi"
            THEN Suppressed("Column name matches PHI pattern")
            ELSE from_string(hdr, "Column name too long")
        stats == BuildStats(tracker.welford.count, dtype, tracker, opts)
        uniques == unique_count(tracker.unique_tracker)
        unique_count_value ==
            IF sealed /\ classification # "Recode"
            THEN Suppressed("High cardinality; exact count suppressed")
            ELSE IF opts.bucket_counts THEN ShortString(bucket_count(uniques))
            ELSE Integer(uniques)
        recoded_values == get_recoded_values(registry, col_idx)
        unique_values ==
            IF classification = "Recode"
            THEN IF recoded_values # <<>> /\ recoded_values[1] # <<>>
                 THEN <<[i \in 1..Len(recoded_values[1]) |-> ShortString(recoded_values[1][i])]>>
                 ELSE <<>>
            ELSE IF classification \in {"Safe", "Warning"}
            THEN SafeUniqueValues(tracker, opts, order)
            ELSE <<>>
    IN [ name |-> name_value,
         index |-> col_idx,
         dtype |-> dtype,
         classification |-> classification,
         stats |-> <<[stats EXCEPT !.unique_count = <<unique_count_value>>]>>,
         unique_values |-> unique_values,
         warnings |-> name_check.warning ]

\* readers/excel.rs, "Build column schemas", one iteration of the loop
ExcelColumnSchema(col_idx, hdr, name_check, inferencer, tracker, opts, order) ==
    LET dtype == inferred_type(inferencer)
        sealed == is_high_cardinality(tracker.unique_tracker)
        classification ==
            IF sealed THEN "HighCardinality" ELSE name_check.classification
        name_value ==
            IF classification = "Phi"
            THEN Suppressed("Column name matches PHI pattern")
            ELSE from_string(hdr, "Column name too long")
        stats == BuildStats(ColumnStatTracker_count(tracker), dtype, tracker, opts)
        uniques == unique_count(tracker.unique_tracker)
        unique_count_value ==
            IF sealed
            THEN Suppressed("High cardinality; exact count suppressed")
            ELSE IF opts.bucket_counts THEN ShortString(bucket_count(uniques))
            ELSE Integer(uniques)
        unique_values ==
            IF classification \in {"Safe", "Warning"}
            THEN SafeUniqueValues(tracker, opts, order)
            ELSE <<>>
    IN [ name |-> name_value,
         index |-> col_idx,
         dtype |-> dtype,
         classification |-> classification,
         stats |-> <<[stats EXCEPT !.unique_count = <<unique_count_value>>]>>,
         unique_values |-> unique_values,
         warnings |-> name_check.warning ]

(***************************************************************************)
(* readers/csv.rs: CsvReader::read_with_recoding.                          *)
(***************************************************************************)
\* headers, column checks, recode registry, trackers (lines 59-87)
CsvReadHeaders ==
    /\ reader = "csv"
    /\ pc = "start"
    /\ LET check == check_column_name(header)
       IN /\ column_check' = check
          /\ recode_registry' =
                IF check.classification = "Recode"
                THEN register_column(RecodeRegistry_new, ColIdx, header,
                                     determine_recode_prefix(header))
                ELSE RecodeRegistry_new
    /\ type_inferencer' = TypeInferencer_new(type_inferencer.max_samples)
    /\ stat_tracker' = ColumnStatTracker_new(stat_tracker.unique_tracker.max_values)
    /\ row_count' = 0
    /\ pos' = 0
    /\ pc' = "pass1"
    /\ UNCHANGED <<reader, header, cells, options, column, sheet_row_count>>
    /\ UNCHANGED <<previous, recoder_vars, unit_vars>>

\* first pass, one record (lines 92-103)
CsvPass1Record ==
    /\ reader = "csv"
    /\ pc = "pass1"
    /\ pos < Len(cells)
    /\ row_count' = row_count + 1
    /\ type_inferencer' = observe(type_inferencer, cells[pos + 1])
    /\ pos' = pos + 1
    /\ UNCHANGED <<reader, header, cells, options, pc, column_check, recode_registry,
                   stat_tracker, column, sheet_row_count>>
    /\ UNCHANGED <<previous, recoder_vars, unit_vars>>

\* end of the first pass: finalize, reopen the file (lines 105-111)
CsvFinalize ==
    /\ reader = "csv"
    /\ pc = "pass1"
    /\ pos = Len(cells)
    /\ type_inferencer' = finalize_initial_inference(type_inferencer)
    /\ pos' = 0
    /\ pc' = "pass2"
    /\ UNCHANGED <<reader, header, cells, options, row_count, column_check,
                   recode_registry, stat_tracker, column, sheet_row_count>>
    /\ UNCHANGED <<previous, recoder_vars, unit_vars>>

\* the tracker after one field of the second pass (lines 120-144)
CsvTrackField(tracker, registry, registry_after, dtype, field) ==
    IF is_missing(field) THEN update_missing(tracker)
    ELSE LET value_to_track ==
                 IF is_recoded(registry, ColIdx)
                 THEN RecodeResult(registry.recoders[ColIdx], field)
                 ELSE field
         IN IF dtype \in {"Integer", "Numeric"} /\ parse_numeric(field) # <<>>
            THEN update_numeric(tracker, parse_numeric(field)[1], value_to_track)
            ELSE update_string(tracker, value_to_track)

\* second pass, one record (lines 112-146)
CsvPass2Record ==
    /\ reader = "csv"
    /\ pc = "pass2"
    /\ pos < Len(cells)
    /\ LET field == cells[pos + 1]
           registry_after ==
               IF ~is_missing(field) /\ is_recoded(recode_registry, ColIdx)
               THEN RecodeRegistry_recode(recode_registry, ColIdx, field)
               ELSE recode_registry
       IN /\ recode_registry' = registry_after
          /\ stat_tracker' = CsvTrackField(stat_tracker, recode_registry, registry_after,
                                           inferred_type(type_inferencer), field)
    /\ pos' = pos + 1
    /\ UNCHANGED <<reader, header, cells, options, pc, row_count, column_check,
                   type_inferencer, column, sheet_row_count>>
    /\ UNCHANGED <<previous, recoder_vars, unit_vars>>

\* column and sheet schema (lines 148-271), read_with_recoding being called
\* with the options opts
CsvBuild(opts) ==
    /\ reader = "csv"
    /\ pc = "pass2"
    /\ pos = Len(cells)
    /\ options' = opts
    /\ \E order \in Orders(ListableValues(stat_tracker, opts)) :
          column' = CsvColumnSchema(ColIdx, header, column_check, type_inferencer,
                                    stat_tracker, recode_registry, opts, order)
    /\ sheet_row_count' = safe_count(row_count, opts.bucket_counts)
    /\ pc' = "done"
    /\ UNCHANGED <<reader, header, cells, pos, row_count, column_check,
                   recode_registry, type_inferencer, stat_tracker>>
    /\ UNCHANGED <<previous, recoder_vars, unit_vars>>

CsvBuildColumn ==
    \E opts \in CallOptions : CsvBuild(opts)

(***************************************************************************)
(* readers/excel.rs: ExcelReader::process_sheet, for a sheet with a        *)
(* header row.                                                             *)
(***************************************************************************)
\* range, headers, trackers (lines 98-135)
ExcelReadHeaders ==
    /\ reader = "excel"
    /\ pc = "start"
    /\ type_inferencer' = TypeInferencer_new(type_inferencer.max_samples)
    /\ stat_tracker' = ColumnStatTracker_new(stat_tracker.unique_tracker.max_values)
    /\ pos' = 0
    /\ pc' = "rows"
    /\ UNCHANGED <<reader, header, cells, options, row_count, column_check,
                   recode_registry, column, sheet_row_count>>
    /\ UNCHANGED <<previous, recoder_vars, unit_vars>>

\* one data row (lines 138-162)
ExcelRow ==
    /\ reader = "excel"
    /\ pc = "rows"
    /\ pos < Len(cells)
    /\ LET cell == cells[pos + 1]
           str_val == data_to_string(cell)
       IN /\ type_inferencer' =
                IF infer_type_from_data(cell) # <<>>
                THEN observe(type_inferencer, str_val)
                ELSE type_inferencer
          /\ stat_tracker' =
                IF is_missing_data(cell) THEN update_missing(stat_tracker)
                ELSE IF get_numeric_value(cell) # <<>>
                THEN update_numeric(stat_tracker, get_numeric_value(cell)[1], str_val)
                ELSE update_string(stat_tracker, str_val)
    /\ pos' = pos + 1
    /\ UNCHANGED <<reader, header, cells, options, pc, row_count, column_check,
                   recode_registry, column, sheet_row_count>>
    /\ UNCHANGED <<previous, recoder_vars, unit_vars>>

\* end of the rows: finalize type inference (lines 164-167)
ExcelFinalize ==
    /\ reader = "excel"
    /\ pc = "rows"
    /\ pos = Len(cells)
    /\ type_inferencer' = finalize_initial_inference(type_inferencer)
    /\ pc' = "build"
    /\ UNCHANGED <<reader, header, cells, options, pos, row_count, column_check,
                   recode_registry, stat_tracker, column, sheet_row_count>>
    /\ UNCHANGED <<previous, recoder_vars, unit_vars>>

\* column and sheet schema (lines 169-269)
ExcelBuildColumn ==
    /\ reader = "excel"
    /\ pc = "build"
    /\ column_check' = check_column_name(header)
    /\ \E opts \in CallOptions :
          /\ options' = opts
          /\ \E order \in Orders(ListableValues(stat_tracker, opts)) :
                column' = ExcelColumnSchema(ColIdx, header, column_check', type_inferencer,
                                            stat_tracker, opts, order)
          /\ sheet_row_count' = safe_count(Len(cells), opts.bucket_counts)
    /\ pc' = "done"
    /\ UNCHANGED <<reader, header, cells, pos, row_count,
                   recode_registry, type_inferencer, stat_tracker>>
    /\ UNCHANGED <<previous, recoder_vars, unit_vars>>

Next ==
    \/ CsvReadHeaders
    \/ CsvPass1Record
    \/ CsvFinalize
    \/ CsvPass2Record
    \/ CsvBuildColumn
    \/ ExcelReadHeaders
    \/ ExcelRow
    \/ ExcelFinalize
    \/ ExcelBuildColumn

Spec == Init /\ [][Next]_vars


(***************************************************************************)
(* A repeated extraction: the same reader, header, cells and options are   *)
(* processed a second time by a fresh run of the program.                  *)
(***************************************************************************)
RerunHeaders == {HdrAge, HdrId, HdrSite}

InitRerun ==
    /\ Init
    /\ header \in RerunHeaders

\* the first extraction has emitted its manifest; the program is run again
Restart ==
    /\ pc = "done"
    /\ previous = <<>>
    /\ previous' = <<column>>
    /\ pc' = "start"
    /\ pos' = 0
    /\ row_count' = 0
    /\ column_check' = ColumnNameResult_safe
    /\ recode_registry' = RecodeRegistry_new
    /\ type_inferencer' = TypeInferencer_new(SampleCap)
    /\ stat_tracker' = ColumnStatTracker_new(UniqueCap)
    /\ column' = NoColumn
    /\ sheet_row_count' = Integer(0)
    /\ UNCHANGED <<reader, header, cells, options, recoder_vars, unit_vars>>

NextRerun ==
    \/ Next
    \/ Restart

SpecRerun == InitRerun /\ [][NextRerun]_vars

(***************************************************************************)
(* One ValueRecoder under any sequence of recode calls.  The originals are *)
(* site0, site1, ..; the first Shuffled of them arrive in any order, the   *)
(* later ones in the order of their numbers; between them any of the       *)
(* Shuffled earliest and of the Shuffled latest originals seen so far may  *)
(* be recoded again, any number of times.                                  *)
(***************************************************************************)
MaxOriginals == 54

Shuffled == 3

Original(i) == <<"s", "i", "t", "e">> \o NatToString(i)

RecoderPrefixes == {determine_recode_prefix(HdrSite), determine_recode_prefix(<<"c", "l", "i", "n", "i", "c">>)}

InitRecoder ==
    /\ reader = "csv"
    /\ header = HdrSite
    /\ cells = <<>>
    /\ options = ProcessingOptions_default
    /\ ExtractionStart
    /\ previous = <<>>
    /\ \E prefix \in RecoderPrefixes : RecoderStart(prefix)
    /\ UnitStart

\* recode(original) on the recoder, with the bookkeeping of what was returned
Recode(original) ==
    /\ recoder' = ValueRecoder_recode(recoder, original)
    /\ last_call' = <<[original |-> original, label |-> RecodeResult(recoder, original)]>>
    /\ IF \E n \in 1..Len(first_seen) : first_seen[n] = original
       THEN UNCHANGED <<first_seen, first_label>>
       ELSE /\ first_seen' = Append(first_seen, original)
            /\ first_label' =
                  [o \in DOMAIN first_label \cup {original} |->
                     IF o = original THEN RecodeResult(recoder, original)
                     ELSE first_label[o]]
    /\ UNCHANGED <<pipeline_vars, previous, unit_vars>>

\* the numbers of the originals that may arrive next
NextOriginals ==
    IF Len(first_seen) < Shuffled
    THEN {i \in 0..(Shuffled - 1) :
            \A n \in 1..Len(first_seen) : first_seen[n] # Original(i)}
    ELSE {Len(first_seen)} \cap 0..(MaxOriginals - 1)

\* recode of an original not seen before
RecodeNew ==
    \E i \in NextOriginals : Recode(Original(i))

\* recode of an original seen before
RecodeAgain ==
    \E n \in 1..Len(first_seen) :
       /\ n <= Shuffled \/ n > Len(first_seen) - Shuffled
       /\ Recode(first_seen[n])

NextRecoder ==
    \/ RecodeNew
    \/ RecodeAgain

SpecRecoder == InitRecoder /\ [][NextRecoder]_vars

(***************************************************************************)
(* The delimited-text reader at full scale: a column with a Safe header    *)
(* whose rows hold the distinct values v1, v2, .., each once, read with    *)
(* the trackers main builds (MAX_UNIQUE_VALUES, TYPE_INFERENCE_SAMPLE_SIZE)*)
(* and the default threshold k = 5.                                        *)
(***************************************************************************)
HundredRows == 100

DistinctValue(i) == <<"v">> \o NatToString(i)

SafeHeaders == {h \in Headers : check_column_name(h).classification = "Safe"}

InitHundred ==
    /\ reader = "csv"
    /\ header \in SafeHeaders
    /\ cells = [i \in 1..HundredRows |-> DistinctValue(i)]
    /\ options \in {[ProcessingOptions_default EXCEPT !.bucket_counts = b] : b \in BOOLEAN}
    /\ pc = "start"
    /\ pos = 0
    /\ row_count = 0
    /\ column_check = ColumnNameResult_safe
    /\ recode_registry = RecodeRegistry_new
    /\ type_inferencer = TypeInferencer_new(TYPE_INFERENCE_SAMPLE_SIZE)
    /\ stat_tracker = ColumnStatTracker_new(MAX_UNIQUE_VALUES)
    /\ column = NoColumn
    /\ sheet_row_count = Integer(0)
    /\ previous = <<>>
    /\ RecoderStart(<<>>)
    /\ UnitStart

\* read_with_recoding called with the options of the scenario
CsvBuildAsCalled == CsvBuild(options)

NextHundred ==
    \/ CsvReadHeaders
    \/ CsvPass1Record
    \/ CsvFinalize
    \/ CsvPass2Record
    \/ CsvBuildAsCalled

SpecHundred == InitHundred /\ [][NextHundred]_vars

(***************************************************************************)
(* One TypeInferencer under any sequence of observe calls, with            *)
(* finalize_initial_inference called at any moment.  call holds the last   *)
(* call made and the types that admit every value observed so far.         *)
(***************************************************************************)
MaxObserved == 14

CellFloat == <<"1", ".", "5">>

CellTrue == <<"t", "r", "u", "e">>

CellDate == <<"2", "0", "2", "4", "-", "0", "1", "-", "1", "5">>

CellDatetime == CellDate \o <<" ", "1", "0", ":", "3", "0", ":", "0", "0">>

\* a value with a line break: free text to upgrade_type_if_needed
CellLines == <<"a", "\n", "b">>

\* an integer behind a line break: free text that is_integer accepts
CellOneLine == <<"1", "\n">>

\* 101 bytes: one more than the free-text length
Text101 == Repeat("x", 101)

\* a missing token in padding, and the zero that is none
CellPaddedNa == <<" ", "n", "A", " ">>

CellZero == <<"0">>

ObservedValues ==
    {CellNA, CellPaddedNa, CellZero, CellOne, CellTwo, CellFloat, CellTrue, CellDate,
     CellDatetime, CellText, CellLines, CellOneLine, Text101}

\* the types below String, and those whose recogniser accepts the value
NarrowTypes == {"Boolean", "Integer", "Numeric", "Date", "Datetime"}

Admitting(value) ==
    {t \in NarrowTypes :
        CASE t = "Boolean" -> is_boolean(value)
          [] t = "Integer" -> is_integer(value)
          [] t = "Numeric" -> is_numeric(value)
          [] t = "Date" -> is_date(value)
          [] OTHER -> is_datetime(value)}

\* the types whose recogniser accepted every non-missing value observed so far
Admitted == IF call = <<>> THEN NarrowTypes ELSE call.admitted

\* the least type whose recogniser accepts the value, String if none does
Kind(value) ==
    IF is_boolean(value) THEN "Boolean"
    ELSE IF is_integer(value) THEN "Integer"
    ELSE IF is_numeric(value) THEN "Numeric"
    ELSE IF is_date(value) THEN "Date"
    ELSE IF is_datetime(value) THEN "Datetime"
    ELSE "String"

\* the join of two types in the lattice Boolean < Integer < Numeric,
\* Date < Datetime, with String above both chains and None below all
Join(a, b) ==
    LET chains == << <<"Boolean", "Integer", "Numeric">>, <<"Date", "Datetime">> >>
        rank(c, t) == CHOOSE i \in 1..Len(chains[c]) : chains[c][i] = t
    IN IF a = "None" THEN b
       ELSE IF b = "None" THEN a
       ELSE IF \E c \in 1..2 : InSeq(a, chains[c]) /\ InSeq(b, chains[c])
            THEN LET c == CHOOSE c \in 1..2 : InSeq(a, chains[c]) /\ InSeq(b, chains[c])
                 IN IF rank(c, a) >= rank(c, b) THEN a ELSE b
            ELSE "String"

\* the join of the kinds of the non-missing values observed so far
Least == IF call = <<>> THEN "None" ELSE call.least

InitInferencer ==
    /\ reader = "csv"
    /\ header = HdrAge
    /\ cells = <<>>
    /\ options = ProcessingOptions_default
    /\ ExtractionStart
    /\ previous = <<>>
    /\ RecoderStart(<<>>)
    /\ UnitStart

\* the trail after the inferencer has become next
TrailAfter(next) ==
    IF /\ next.initial_inference_done
       /\ \/ type_trail = <<>>
          \/ type_trail[Len(type_trail)] # inferred_type(next)
    THEN Append(type_trail, inferred_type(next))
    ELSE type_trail

Observe ==
    /\ type_inferencer.values_seen < MaxObserved
    /\ \E value \in ObservedValues :
          LET next == observe(type_inferencer, value)
          IN /\ type_inferencer' = next
             /\ type_trail' = TrailAfter(next)
             /\ call' = [ fn |-> "observe",
                          value |-> value,
                          admitted |-> IF is_missing(value) THEN Admitted
                                       ELSE Admitted \cap Admitting(value),
                          least |-> IF is_missing(value) THEN Least
                                    ELSE Join(Least, Kind(value)) ]
    /\ UNCHANGED <<reader, header, cells, options, pc, pos, row_count, column_check,
                   recode_registry, stat_tracker, column, sheet_row_count>>
    /\ UNCHANGED <<previous, recoder_vars, unique_tracker, added, result>>

FinalizeInference ==
    /\ LET next == finalize_initial_inference(type_inferencer)
       IN /\ type_inferencer' = next
          /\ type_trail' = TrailAfter(next)
    /\ call' = [ fn |-> "finalize_initial_inference", value |-> <<>>,
                 admitted |-> Admitted, least |-> Least ]
    /\ UNCHANGED <<reader, header, cells, options, pc, pos, row_count, column_check,
                   recode_registry, stat_tracker, column, sheet_row_count>>
    /\ UNCHANGED <<previous, recoder_vars, unique_tracker, added, result>>

NextInferencer ==
    \/ Observe
    \/ FinalizeInference

SpecInferencer == InitInferencer /\ [][NextInferencer]_vars

(***************************************************************************)
(* One CappedUniqueTracker under any sequence of add calls.                *)
(***************************************************************************)
MaxAdds == 6

AddedValues == {CellOne, CellTwo, CellText, CellEmail}

InitTracker ==
    /\ reader = "csv"
    /\ header = HdrAge
    /\ cells = <<>>
    /\ options = ProcessingOptions_default
    /\ ExtractionStart
    /\ previous = <<>>
    /\ RecoderStart(<<>>)
    /\ type_trail = <<>>
    /\ \E max_values \in 0..UniqueCap : unique_tracker = CappedUniqueTracker_new(max_values)
    /\ added = <<>>
    /\ call = <<>>
    /\ result = <<>>

Add ==
    /\ Len(added) < MaxAdds
    /\ \E value \in AddedValues :
          /\ unique_tracker' = CappedUniqueTracker_add(unique_tracker, value)
          /\ added' = Append(added, value)
    /\ UNCHANGED <<pipeline_vars, previous, recoder_vars, type_trail, call, result>>

NextTracker == Add

SpecTracker == InitTracker /\ [][NextTracker]_vars

(***************************************************************************)
(* The suppression functions called on their own, for any value, count,    *)
(* threshold, classification and name pattern.                             *)
(***************************************************************************)
MaxCount == 3

\* 32 bytes: as long as a ShortString may be
Text32 == Repeat("x", MAX_SHORT_STRING_LEN)

\* an e-mail address of 35 bytes
LongEmail == Repeat("x", 30) \o <<"@", "b", ".", "c", "o">>

SuppressedValues == {CellText, CellEmail, Text32, LongText, LongEmail}

\* the state in which no reader and no object of the model has acted
Idle ==
    /\ reader = "csv"
    /\ header = HdrAge
    /\ cells = <<>>
    /\ options = ProcessingOptions_default
    /\ ExtractionStart
    /\ previous = <<>>
    /\ RecoderStart(<<>>)
    /\ type_trail = <<>>
    /\ unique_tracker = CappedUniqueTracker_new(UniqueCap)
    /\ added = <<>>

InitSuppression ==
    /\ Idle
    /\ call \in [ value : SuppressedValues,
                  count : 0..MaxCount,
                  k : 1..MaxCount,
                  column_classification : {"Safe", "Warning", "Phi", "Recode", "HighCardinality"},
                  phi_pattern : {<<>>, <<"name">>} ]
    /\ result = <<>>

CallShouldSuppressValue ==
    /\ result' = <<[fn |-> "should_suppress_value",
                    value |-> should_suppress_value(call.value, call.count, call.k,
                                 call.column_classification, call.phi_pattern)]>>
    /\ UNCHANGED <<pipeline_vars, previous, recoder_vars, type_trail, unique_tracker,
                   added, call>>

CallSafeStringValue ==
    /\ result' = <<[fn |-> "safe_string_value",
                    value |-> safe_string_value(call.value, call.count, call.k,
                                 call.column_classification, call.phi_pattern)]>>
    /\ UNCHANGED <<pipeline_vars, previous, recoder_vars, type_trail, unique_tracker,
                   added, call>>

NextSuppression ==
    \/ CallShouldSuppressValue
    \/ CallSafeStringValue

SpecSuppression == InitSuppression /\ [][NextSuppression]_vars

(***************************************************************************)
(* bucket_count and safe_count called on their own, for every count up to  *)
(* MaxCounted.  Counts are numbers of rows and cells: n as i64 is n.       *)
(***************************************************************************)
MaxCounted == 1002

InitBucketing ==
    /\ Idle
    /\ call \in [n : 0..MaxCounted, bucket : BOOLEAN]
    /\ result = <<>>

CallBucketCount ==
    /\ result' = <<[fn |-> "bucket_count", value |-> bucket_count(call.n)]>>
    /\ UNCHANGED <<pipeline_vars, previous, recoder_vars, type_trail, unique_tracker,
                   added, call>>

CallSafeCount ==
    /\ result' = <<[fn |-> "safe_count", value |-> safe_count(call.n, call.bucket)]>>
    /\ UNCHANGED <<pipeline_vars, previous, recoder_vars, type_trail, unique_tracker,
                   added, call>>

NextBucketing ==
    \/ CallBucketCount
    \/ CallSafeCount

SpecBucketing == InitBucketing /\ [][NextBucketing]_vars

(***************************************************************************)
(* check_column_name called on its own, for names of one word and of two   *)
(* words joined by a separator.                                            *)
(***************************************************************************)
NameWords ==
    { HdrName, <<"S", "i", "t", "e">>, <<"c", "o", "d", "e">>, <<"I", "D">>, HdrAge,
      <<"r", "e", "c", "o", "r", "d">>, <<"s", "i", "t", "e", "s">> }

NameSeparators == {"_", ".", " "}

ColumnNames ==
    NameWords \cup {a \o <<sep>> \o b : a \in NameWords, b \in NameWords, sep \in NameSeparators}

InitColumnNames ==
    /\ Idle
    /\ call \in [name : ColumnNames]
    /\ result = <<>>

CallCheckColumnName ==
    /\ result' = <<[fn |-> "check_column_name", value |-> check_column_name(call.name)]>>
    /\ UNCHANGED <<pipeline_vars, previous, recoder_vars, type_trail, unique_tracker,
                   added, call>>

NextColumnNames == CallCheckColumnName

SpecColumnNames == InitColumnNames /\ [][NextColumnNames]_vars

(***************************************************************************)
(* The two entries that hand ProcessingOptions to schema::extract_schema:  *)
(* the Scan command of main.rs and the window of cli.rs.  call holds the   *)
(* parsed command line or the GuiApp, result the options of the last call  *)
(* of extract_schema.                                                      *)
(***************************************************************************)
ThresholdValues == {1, DEFAULT_K_ANONYMITY, 20}

\* Commands::Scan, the arguments that reach the options
ScanCommands ==
    [ command : {"Scan"},
      k : ThresholdValues,
      bucket_counts : BOOLEAN,
      exact_counts : BOOLEAN,
      exact_median : BOOLEAN,
      hash_file : BOOLEAN,
      relaxed : BOOLEAN ]

\* GuiApp::default()
GuiApp_default ==
    [ command |-> "Gui",
      state |-> "Ready",
      dropped_file |-> FALSE,
      options |-> ProcessingOptions_default ]

InitOptions ==
    /\ Idle
    /\ call \in ScanCommands \cup {GuiApp_default}
    /\ result = <<>>

\* main.rs, the ProcessingOptions the Scan arm builds from its arguments
ScanOptions(scan) ==
    [ k_anonymity |-> scan.k,
      bucket_counts |-> scan.bucket_counts,
      exact_counts |-> scan.exact_counts /\ scan.relaxed,
      exact_median |-> scan.exact_median /\ scan.relaxed,
      hash_file |-> scan.hash_file,
      relaxed |-> scan.relaxed ]

\* main.rs, the Scan arm up to the call of extract_schema
Scan ==
    /\ call.command = "Scan"
    /\ result = <<>>
    /\ result' = <<ScanOptions(call)>>
    /\ UNCHANGED <<pipeline_vars, previous, recoder_vars, type_trail, unique_tracker,
                   added, call>>

\* a frame of GuiApp::update in which the window changes to app
GuiFrame(app) ==
    /\ call' = app
    /\ UNCHANGED <<pipeline_vars, previous, recoder_vars, type_trail, unique_tracker,
                   added, result>>

\* GuiApp::update, "Handle dropped files"
DropFile ==
    /\ call.command = "Gui"
    /\ GuiFrame([call EXCEPT !.dropped_file = TRUE, !.state = "Processing"])

\* GuiApp::update, "Process file if needed": extract_schema is called with a
\* clone of the options and ends in a manifest or in an error
Process ==
    /\ call.command = "Gui"
    /\ call.state = "Processing"
    /\ call.dropped_file
    /\ result' = <<call.options>>
    /\ \E outcome \in {"Done", "Error"} : call' = [call EXCEPT !.state = outcome]
    /\ UNCHANGED <<pipeline_vars, previous, recoder_vars, type_trail, unique_tracker,
                   added>>

\* GuiApp::show_ready_state, the Browse button with a file picked
Browse ==
    /\ call.command = "Gui"
    /\ call.state = "Ready"
    /\ GuiFrame([call EXCEPT !.dropped_file = TRUE, !.state = "Processing"])

\* GuiApp::show_ready_state, the K-anonymity slider
SlideThreshold ==
    /\ call.command = "Gui"
    /\ call.state = "Ready"
    /\ \E k \in ThresholdValues \ {call.options.k_anonymity} :
          GuiFrame([call EXCEPT !.options.k_anonymity = k])

\* GuiApp::show_ready_state, the checkboxes that are always enabled
ToggleBucketCounts ==
    /\ call.command = "Gui"
    /\ call.state = "Ready"
    /\ GuiFrame([call EXCEPT !.options.bucket_counts = ~call.options.bucket_counts])

ToggleHashFile ==
    /\ call.command = "Gui"
    /\ call.state = "Ready"
    /\ GuiFrame([call EXCEPT !.options.hash_file = ~call.options.hash_file])

\* GuiApp::show_ready_state, the checkboxes inside add_enabled_ui(relaxed)
ToggleExactCounts ==
    /\ call.command = "Gui"
    /\ call.state = "Ready"
    /\ call.options.relaxed
    /\ GuiFrame([call EXCEPT !.options.exact_counts = ~call.options.exact_counts])

ToggleExactMedian ==
    /\ call.command = "Gui"
    /\ call.state = "Ready"
    /\ call.options.relaxed
    /\ GuiFrame([call EXCEPT !.options.exact_median = ~call.options.exact_median])

\* GuiApp::show_ready_state, the Relaxed mode checkbox: it writes relaxed only
ToggleRelaxed ==
    /\ call.command = "Gui"
    /\ call.state = "Ready"
    /\ GuiFrame([call EXCEPT !.options.relaxed = ~call.options.relaxed])

\* GuiApp::reset, behind "New file" and "Try again": the options are kept
GuiApp_reset ==
    /\ call.command = "Gui"
    /\ call.state \in {"Done", "Error"}
    /\ GuiFrame([call EXCEPT !.state = "Ready", !.dropped_file = FALSE])

NextOptions ==
    \/ Scan
    \/ DropFile
    \/ Process
    \/ Browse
    \/ SlideThreshold
    \/ ToggleBucketCounts
    \/ ToggleHashFile
    \/ ToggleExactCounts
    \/ ToggleExactMedian
    \/ ToggleRelaxed
    \/ GuiApp_reset

SpecOptions == InitOptions /\ [][NextOptions]_vars

(***************************************************************************)
(* The delimited-text reader called as the Scan command calls it: the      *)
(* options are the ones main builds from its arguments, the exactness      *)
(* flags and relaxed included.                                             *)
(***************************************************************************)
ScanCells == {CellNA, CellOne, CellTwo, CellText}

InitScan ==
    /\ reader = "csv"
    /\ header \in Headers
    /\ cells \in SeqsUpTo(ScanCells, MaxRows)
    /\ options \in {ScanOptions(scan) : scan \in {c \in ScanCommands : c.k = 1 /\ c.hash_file}}
    /\ ExtractionStart
    /\ previous = <<>>
    /\ RecoderStart(<<>>)
    /\ UnitStart

NextScan ==
    \/ CsvReadHeaders
    \/ CsvPass1Record
    \/ CsvFinalize
    \/ CsvPass2Record
    \/ CsvBuildAsCalled

SpecScan == InitScan /\ [][NextScan]_vars

(***************************************************************************)
(* schema::extract_schema up to the sheets: the format of the path, the    *)
(* hash of the file, the reader.  call holds the file name, hash_file and  *)
(* whether the file can be opened; result the progress of the call.        *)
(***************************************************************************)
\* Path::extension of a file name: the part after the last dot, absent when
\* the name has no dot or only a leading one
RECURSIVE LastDot(_)
LastDot(name) ==
    IF name = <<>> THEN 0
    ELSE IF name[Len(name)] = "." THEN Len(name)
    ELSE LastDot(SubSeq(name, 1, Len(name) - 1))

extension(name) ==
    IF LastDot(name) <= 1 THEN <<>> ELSE <<SubSeq(name, LastDot(name) + 1, Len(name))>>

\* FileFormat::from_extension under a mutation: the extension compared as written
from_extension_as_written(ext) ==
    CASE ext = <<"c", "s", "v">> -> <<"csv">>
      [] ext \in {<<"t", "s", "v">>, <<"t", "a", "b">>} -> <<"tsv">>
      [] ext \in {<<"x", "l", "s", "x">>, <<"x", "l", "s">>, <<"x", "l", "s", "m">>,
                  <<"x", "l", "s", "b">>} -> <<"excel">>
      [] OTHER -> <<>>

\* FileFormat::from_extension
from_extension(ext) ==
    LET lower == to_lowercase(ext)
    IN CASE lower = <<"c", "s", "v">> -> <<"csv">>
         [] lower \in {<<"t", "s", "v">>, <<"t", "a", "b">>} -> <<"tsv">>
         [] lower \in {<<"x", "l", "s", "x">>, <<"x", "l", "s">>, <<"x", "l", "s", "m">>,
                       <<"x", "l", "s", "b">>} -> <<"excel">>
         [] OTHER -> <<>>

FileStems == {<<>>, <<"d">>, <<"d", ".", "c", "s", "v">>}

FileExtensions ==
    { <<"c", "s", "v">>, <<"C", "S", "V">>, <<"C", "s", "v">>, <<"t", "s", "v">>,
      <<"T", "S", "V">>, <<"t", "a", "b">>, <<"T", "a", "b">>, <<"x", "l", "s", "x">>,
      <<"X", "L", "S", "X">>, <<"x", "l", "s">>, <<"x", "l", "s", "m">>,
      <<"x", "l", "s", "b">>, <<"X", "l", "s", "B">>, <<"x", "y", "z">>, <<"t", "x", "t">>,
      <<"c", "s">>, <<"c", "s", "v", "x">>, <<"x", "l">>, <<"d", "t", "a">>, <<>> }

FileNames ==
    FileStems \cup {stem \o <<".">> \o ext : stem \in FileStems, ext \in FileExtensions}

InitFormat ==
    /\ Idle
    /\ call \in [file_name : FileNames, hash_file : BOOLEAN, readable : BOOLEAN]
    /\ result = <<>>

\* the extension extract_schema and create_reader read from the path
PathExt == IF extension(call.file_name) = <<>> THEN <<>> ELSE extension(call.file_name)[1]

\* extract_schema, "Determine file format" and "Create manifest"
DetermineFormat ==
    /\ result = <<>>
    /\ result' = IF from_extension(PathExt) = <<>>
                 THEN <<[step |-> "returned", error |-> <<"UnsupportedFormat">>,
                         format |-> <<>>, hashed |-> FALSE, opened |-> FALSE]>>
                 ELSE <<[step |-> "manifest", error |-> <<>>,
                         format |-> from_extension(PathExt), hashed |-> FALSE,
                         opened |-> FALSE]>>
    /\ UNCHANGED <<pipeline_vars, previous, recoder_vars, type_trail, unique_tracker,
                   added, call>>

\* extract_schema, "Compute file hash if requested": compute_file_hash opens
\* the file and fails with an Io error when it cannot
ComputeFileHash ==
    /\ result # <<>>
    /\ result[1].step = "manifest"
    /\ result' =
          IF ~call.hash_file THEN <<[result[1] EXCEPT !.step = "hashed"]>>
          ELSE IF call.readable
               THEN <<[result[1] EXCEPT !.step = "hashed", !.hashed = TRUE, !.opened = TRUE]>>
               ELSE <<[result[1] EXCEPT !.step = "returned", !.error = <<"Io">>]>>
    /\ UNCHANGED <<pipeline_vars, previous, recoder_vars, type_trail, unique_tracker,
                   added, call>>

\* extract_schema, "Create reader and extract sheets": create_reader reads the
\* same extension, the reader opens the file
ReadSheets ==
    /\ result # <<>>
    /\ result[1].step = "hashed"
    /\ result' =
          IF from_extension(PathExt) = <<>>
          THEN <<[result[1] EXCEPT !.step = "returned", !.error = <<"UnsupportedFormat">>]>>
          ELSE IF call.readable
               THEN <<[result[1] EXCEPT !.step = "returned", !.opened = TRUE]>>
               ELSE <<[result[1] EXCEPT !.step = "returned",
                                        !.error = <<IF result[1].format = <<"excel">>
                                                    THEN "Excel" ELSE "Io">>]>>
    /\ UNCHANGED <<pipeline_vars, previous, recoder_vars, type_trail, unique_tracker,
                   added, call>>

NextFormat ==
    \/ DetermineFormat
    \/ ComputeFileHash
    \/ ReadSheets

SpecFormat == InitFormat /\ [][NextFormat]_vars

(***************************************************************************)
(* The two passes of the delimited-text reader over a column of every      *)
(* kind of value: numbers, boolean tokens, dates, datetimes, text and      *)
(* missing tokens, with the default options.                               *)
(***************************************************************************)
PassCells == {CellNA, CellOne, CellTwo, CellFloat, CellDate, CellDatetime, CellText}

InitPasses ==
    /\ reader = "csv"
    /\ header = HdrAge
    /\ cells \in SeqsUpTo(PassCells, MaxRows)
    /\ options = ProcessingOptions_default
    /\ ExtractionStart
    /\ previous = <<>>
    /\ RecoderStart(<<>>)
    /\ UnitStart

NextPasses ==
    \/ CsvReadHeaders
    \/ CsvPass1Record
    \/ CsvFinalize
    \/ CsvPass2Record
    \/ CsvBuildAsCalled

SpecPasses == InitPasses /\ [][NextPasses]_vars

(***************************************************************************)
(* One P2Quantile under any sequence of update calls, with quantile called *)
(* at any moment.  call holds the estimator, the observations it received  *)
(* and whether a call panicked; result the last answer of quantile.        *)
(***************************************************************************)
MaxUpdates == 8

\* f64::NAN: it compares false with every value, partial_cmp gives None
NaN == [n |-> 0, d |-> 0]

QuantileTargets == {Frac(1, 4), Half, Frac(3, 4)}

\* NaN is what "nan" under a sign parses to
ObservedNumbers == {F64(1), F64(2), F64(3), NaN}

\* sort_by(|a, b| a.partial_cmp(b).unwrap()) panics: a slice of two or more
\* elements is compared, and partial_cmp of a NaN is None
SortPanics(values) ==
    /\ Len(values) >= 2
    /\ \E i \in 1..Len(values) : values[i] = NaN

InitQuantile ==
    /\ Idle
    /\ call \in {[estimator |-> P2Quantile_new(p), observations |-> <<>>, panicked |-> FALSE] :
                    p \in QuantileTargets}
    /\ result = <<>>

\* P2Quantile::update; initialize sorts the buffer at the fifth observation.
\* NaN is offered while the buffer fills, where the sorts meet it.
Update ==
    /\ ~call.panicked
    /\ Len(call.observations) < MaxUpdates
    /\ \E x \in ObservedNumbers :
          /\ x = NaN => ~call.estimator.initialized
          /\ call' =
                IF /\ ~call.estimator.initialized
                   /\ Len(call.estimator.initial_values) = 4
                   /\ SortPanics(Append(call.estimator.initial_values, x))
                THEN [call EXCEPT !.observations = Append(@, x), !.panicked = TRUE]
                ELSE [call EXCEPT !.observations = Append(@, x),
                                  !.estimator = P2Quantile_update(@, x)]
    /\ result' = <<>>
    /\ UNCHANGED <<pipeline_vars, previous, recoder_vars, type_trail, unique_tracker,
                   added>>

\* P2Quantile::quantile; below five observations it sorts a clone of the buffer
CallQuantile ==
    /\ ~call.panicked
    /\ result = <<>>
    /\ IF ~call.estimator.initialized /\ SortPanics(call.estimator.initial_values)
       THEN /\ call' = [call EXCEPT !.panicked = TRUE]
            /\ result' = <<[fn |-> "quantile", returned |-> FALSE, value |-> <<>>]>>
       ELSE /\ call' = call
            /\ result' = <<[fn |-> "quantile", returned |-> TRUE,
                            value |-> P2Quantile_quantile(call.estimator)]>>
    /\ UNCHANGED <<pipeline_vars, previous, recoder_vars, type_trail, unique_tracker,
                   added>>

NextQuantile ==
    \/ Update
    \/ CallQuantile

SpecQuantile == InitQuantile /\ [][NextQuantile]_vars

(***************************************************************************)
(* What the input holds, read off the cells themselves.                    *)
(***************************************************************************)
\* the string the reader hands to the trackers for the cell of row j
TrackedString(j) ==
    IF reader = "csv" THEN cells[j] ELSE data_to_string(cells[j])

\* the cell of row j is missing to the reader
CellIsMissing(j) ==
    IF reader = "csv" THEN is_missing(cells[j]) ELSE is_missing_data(cells[j])

NonMissingRows == {j \in 1..Len(cells) : ~CellIsMissing(j)}

MissingRows == {j \in 1..Len(cells) : CellIsMissing(j)}

\* number of non-missing cells that hold the string v
Occurrences(v) == Cardinality({j \in NonMissingRows : TrackedString(j) = v})

\* the name classification of the header
NameClass == check_column_name(header).classification

\* an optional statistic is absent or Suppressed
AbsentOrSuppressed(opt) == opt = <<>> \/ opt[1].type = "suppressed"

(***************************************************************************)
(* C1.  A column whose header the name lexicon classifies as Phi emits no  *)
(* value derived from its cells: unique_values is absent, and stats.min    *)
(* and stats.max are absent or Suppressed, whatever the inferred type.     *)
(* The readers emit min and max as Float for an Integer or Numeric column  *)
(* without looking at the classification, so this is violated.             *)
(***************************************************************************)
C1_PhiColumnEmitsNoCellValue ==
    (pc = "done" /\ NameClass = "Phi") =>
        /\ column.unique_values = <<>>
        /\ AbsentOrSuppressed(column.stats[1].min)
        /\ AbsentOrSuppressed(column.stats[1].max)
        /\ column.stats[1].mean = <<>>
        /\ column.stats[1].median = <<>>

(***************************************************************************)
(* C2.  Every value listed in unique_values of a column emitted as Safe or *)
(* Warning occurs in at least k_anonymity non-missing cells of the column. *)
(***************************************************************************)
C2_ListedValuesMeetThreshold ==
    (/\ pc = "done"
     /\ column.classification \in {"Safe", "Warning"}
     /\ column.unique_values # <<>>) =>
        \A i \in 1..Len(column.unique_values[1]) :
           Occurrences(column.unique_values[1][i].value) >= options.k_anonymity

\* a Safe or Warning column lists a value under k = 2 while another value of
\* the column, seen once only, is left out
C2_Witness ==
    /\ pc = "done"
    /\ options.k_anonymity = 2
    /\ column.classification \in {"Safe", "Warning"}
    /\ column.unique_values # <<>>
    /\ \E j \in NonMissingRows :
          /\ Occurrences(TrackedString(j)) = 1
          /\ \A i \in 1..Len(column.unique_values[1]) :
                column.unique_values[1][i].value # TrackedString(j)

(***************************************************************************)
(* C3.  A Recode column's cells are replaced by their labels before any    *)
(* statistic sees them: the Welford and P2 estimators are never fed (a     *)
(* label is no number), the unique tracker holds no original cell, and no  *)
(* numeric summary of the originals is emitted.  The delimited-text reader *)
(* parses the original field for the estimators and the spreadsheet reader *)
(* has no recoding, so this is violated.                                   *)
(***************************************************************************)
C3_RecodeColumnStatisticsSeeLabelsOnly ==
    (pc = "done" /\ NameClass = "Recode") =>
        /\ stat_tracker.welford.count = 0
        /\ stat_tracker.p2_median.count = 0
        /\ \A j \in NonMissingRows :
              TrackedString(j) \notin stat_tracker.unique_tracker.values
        /\ column.stats[1].min = <<>>
        /\ column.stats[1].max = <<>>
        /\ column.stats[1].mean = <<>>
        /\ column.stats[1].std_dev = <<>>
        /\ column.stats[1].median = <<>>

(***************************************************************************)
(* C4.  Every ShortString of the emitted schema (column name, unique       *)
(* values, recode labels, bucketed counts) holds at most 32 bytes;         *)
(* from_string gives Suppressed for every input string longer than that,   *)
(* and safe_string_value gives no ShortString for it, whatever the count,  *)
(* the threshold and the classification.                                   *)
(***************************************************************************)
EmittedSafeValues ==
    << column.name, sheet_row_count >>
    \o column.stats[1].count \o column.stats[1].missing_count
    \o column.stats[1].min \o column.stats[1].max \o column.stats[1].unique_count
    \o (IF column.unique_values = <<>> THEN <<>> ELSE column.unique_values[1])

InputStrings == {header} \cup {TrackedString(j) : j \in 1..Len(cells)}

Classifications == {"Safe", "Warning", "Phi", "Recode", "HighCardinality"}

C4_ShortStringsAreShort ==
    pc = "done" =>
        /\ \A i \in 1..Len(EmittedSafeValues) :
              EmittedSafeValues[i].type = "short_string" =>
                 Len(EmittedSafeValues[i].value) <= 32
        /\ \A s \in InputStrings :
              Len(s) > 32 =>
                 /\ from_string(s, "too long").type = "suppressed"
                 /\ \A count \in 0..MaxRows, k \in KValues, c \in Classifications :
                       safe_string_value(s, count, k, c, <<>>).type # "short_string"

\* a column with a 33-byte header and a 33-byte cell is emitted with a
\* suppressed name and a list of unique values that leaves the cell out
C4_Witness ==
    /\ pc = "done"
    /\ Len(header) > 32
    /\ column.name.type = "suppressed"
    /\ \E j \in NonMissingRows : Len(TrackedString(j)) > 32
    /\ column.unique_values # <<>>
    /\ column.stats[1].count[1].type = "short_string"

(***************************************************************************)
(* C5.  A second extraction of the same rows with the same options emits   *)
(* the same column schema as the first, unique_values in the same order.   *)
(* The list is built by iterating a HashSet, whose order is not fixed, so  *)
(* this is violated.                                                       *)
(***************************************************************************)
C5_RepeatedExtractionIsIdentical ==
    (pc = "done" /\ previous # <<>>) => column = previous[1]

(***************************************************************************)
(* C6.  recode(x) returns the label it returned at x's first call, and the *)
(* n-th distinct input in first-call order (n from 0) is labelled          *)
(* prefix_L(n), L(n) being n in bijective base 26 over A..Z: the numeral   *)
(* of value n + 1 with A = 1 .. Z = 26 (0 = A, 25 = Z, 26 = AA, 51 = AZ,   *)
(* 52 = BA).                                                               *)
(***************************************************************************)
LetterRank(c) == CHOOSE i \in 1..26 : UpperLetters[i] = c

\* the number a bijective base-26 numeral stands for
RECURSIVE LabelNumber(_)
LabelNumber(label) ==
    IF label = <<>> THEN 0
    ELSE 26 * LabelNumber(SubSeq(label, 1, Len(label) - 1)) + LetterRank(label[Len(label)])

\* the labels the claim spells out
SpelledLabels ==
    [n \in {0, 25, 26, 51, 52} |->
        CASE n = 0 -> <<"A">>
          [] n = 25 -> <<"Z">>
          [] n = 26 -> <<"A", "A">>
          [] n = 51 -> <<"A", "Z">>
          [] n = 52 -> <<"B", "A">>]

C6_LabelsFollowFirstAppearance ==
    /\ \A n \in 0..(Len(first_seen) - 1) :
          LET suffix == index_to_label(n)
          IN /\ first_label[first_seen[n + 1]] = recoder.prefix \o <<"_">> \o suffix
             /\ \A i \in 1..Len(suffix) : IsUpper(suffix[i])
             /\ LabelNumber(suffix) = n + 1
             /\ n \in DOMAIN SpelledLabels => suffix = SpelledLabels[n]
    /\ last_call # <<>> => last_call[1].label = first_label[last_call[1].original]

\* 53 distinct originals have been recoded, the latest call repeating the
\* very first original
C6_Witness ==
    /\ Len(first_seen) = 53
    /\ last_call # <<>>
    /\ last_call[1].original = first_seen[1]
    /\ first_label[first_seen[53]] = recoder.prefix \o <<"_", "B", "A">>

(***************************************************************************)
(* C7.  Distinct originals have distinct labels, the reverse mapping has   *)
(* exactly one entry per original, and the counter equals the number of    *)
(* mappings.                                                               *)
(***************************************************************************)
C7_RecoderIsInjective ==
    LET originals == DOMAIN recoder.mappings
        labels == {recoder.mappings[o] : o \in originals}
        reverse == get_reverse_mappings(recoder)
    IN /\ originals = {first_seen[n] : n \in 1..Len(first_seen)}
       /\ Cardinality(labels) = Cardinality(originals)
       /\ Cardinality(DOMAIN reverse) = Cardinality(originals)
       /\ \A l \in DOMAIN reverse : Cardinality(reverse[l]) = 1
       /\ recoder.counter = ValueRecoder_count(recoder)

\* 27 distinct originals recoded (labels of one and of two letters), a
\* repeated call among them
C7_Witness ==
    /\ recoder.counter = 27
    /\ last_call # <<>>
    /\ last_call[1].original # first_seen[Len(first_seen)]

(***************************************************************************)
(* C8.  stats.count is the number of non-missing cells and                 *)
(* stats.missing_count the number of missing cells of the column, exact    *)
(* or bucketed as the options say, whatever the inferred type.  Both       *)
(* readers take the count from the Welford estimator, which is fed the     *)
(* numeric cells only, so this is violated.                                *)
(***************************************************************************)
C8_CountsAreCellCounts ==
    pc = "done" =>
        /\ column.stats[1].count =
              <<safe_count(Cardinality(NonMissingRows), options.bucket_counts)>>
        /\ column.stats[1].missing_count =
              <<safe_count(Cardinality(MissingRows), options.bucket_counts)>>

(***************************************************************************)
(* C9.  In both readers the emitted classification is HighCardinality      *)
(* exactly when the unique tracker sealed and the name classification is   *)
(* Safe or Warning; a Phi or Recode name keeps its classification.  The    *)
(* spreadsheet reader turns every sealed column into HighCardinality, so   *)
(* this is violated.                                                       *)
(***************************************************************************)
C9_HighCardinalityOnlyOverSafeOrWarning ==
    pc = "done" =>
        /\ column.classification = "HighCardinality" <=>
              (/\ is_high_cardinality(stat_tracker.unique_tracker)
               /\ NameClass \in {"Safe", "Warning"})
        /\ NameClass \in {"Phi", "Recode"} => column.classification = NameClass

(***************************************************************************)
(* C10.  The emitted name of a column whose header matches the PHI list is *)
(* Suppressed, in both readers and however many distinct values it holds;  *)
(* the name of every other column is from_string(header).  The spreadsheet *)
(* reader tests the classification after the high-cardinality override, so *)
(* this is violated.                                                       *)
(***************************************************************************)
HeaderMatchesPhiList ==
    \E i \in 1..Len(PHI_PATTERNS) :
       matches_pattern(normalize_column_name(to_lowercase(header)), PHI_PATTERNS[i])

C10_PhiHeaderIsNeverEmitted ==
    pc = "done" =>
        IF HeaderMatchesPhiList
        THEN column.name.type = "suppressed"
        ELSE column.name = from_string(header, "Column name too long")

(***************************************************************************)
(* C11.  A column whose unique tracker sealed is emitted with a Suppressed *)
(* stats.unique_count and without unique_values, whatever its name         *)
(* classification.  The delimited-text reader exempts a Recode column from *)
(* both: it emits the bucket (or the number) of the emptied tracker and    *)
(* lists every label of the recoder, so this is violated.                  *)
(***************************************************************************)
C11_SealedColumnHidesUniques ==
    (pc = "done" /\ is_high_cardinality(stat_tracker.unique_tracker)) =>
        /\ column.stats[1].unique_count # <<>>
        /\ column.stats[1].unique_count[1].type = "suppressed"
        /\ column.unique_values = <<>>

(***************************************************************************)
(* C12.  As stated: a delimited-text column with a Safe name and 100 rows  *)
(* of 100 distinct values, each once, read with k = 5, is emitted with a   *)
(* Suppressed unique_count, classification HighCardinality and without     *)
(* unique_values.  100 distinct values are far below MAX_UNIQUE_VALUES, so *)
(* the tracker does not seal and this is violated.                         *)
(***************************************************************************)
C12_HundredDistinctValuesSeal ==
    pc = "done" =>
        /\ column.stats[1].unique_count[1].type = "suppressed"
        /\ column.classification = "HighCardinality"
        /\ column.unique_values = <<>>

(***************************************************************************)
(* C12, amended.  The column of that scenario is emitted with the          *)
(* classification Safe, with unique_count the number of its distinct       *)
(* values (the bucket 21-100 of 100 when counts are bucketed, Integer 100  *)
(* otherwise) and without unique_values, no value reaching k = 5; its      *)
(* tracker has not sealed and holds every value with the count 1.          *)
(***************************************************************************)
C12_HundredDistinctValuesStaySafe ==
    pc = "done" =>
        /\ ~is_high_cardinality(stat_tracker.unique_tracker)
        /\ Cardinality(stat_tracker.unique_tracker.values) = HundredRows
        /\ \A v \in stat_tracker.unique_tracker.values :
              stat_tracker.unique_tracker.value_counts[v] = 1
        /\ column.classification = "Safe"
        /\ column.stats[1].unique_count = <<safe_count(HundredRows, options.bucket_counts)>>
        /\ (HundredRows = 100 /\ options.bucket_counts) =>
              column.stats[1].unique_count[1] = ShortString(<<"2", "1", "-", "1", "0", "0">>)
        /\ column.unique_values = <<>>

\* the scenario has been read to its end with bucketed counts
C12_Witness ==
    /\ pc = "done"
    /\ options.k_anonymity = DEFAULT_K_ANONYMITY
    /\ options.bucket_counts
    /\ row_count = HundredRows
    /\ HundredRows >= 100
    /\ column.dtype = "String"

(***************************************************************************)
(* C13.  Once its initial inference is done, every observe leaves the type *)
(* of a TypeInferencer unchanged or moves it strictly up the lattice       *)
(* (Integer to Numeric or String, Numeric to String, Boolean to String,    *)
(* Date to Datetime or String, Datetime to String, String to FreeText),    *)
(* and an inferencer that has reached String or FreeText never returns to  *)
(* a narrower type.                                                        *)
(***************************************************************************)
TypeUpgrades ==
    { <<"Integer", "Numeric">>, <<"Integer", "String">>, <<"Numeric", "String">>,
      <<"Boolean", "String">>, <<"Date", "Datetime">>, <<"Date", "String">>,
      <<"Datetime", "String">>, <<"String", "FreeText">> }

\* every change of the trail is an upgrade and no type comes back
TrailClimbs ==
    /\ \A i \in 1..(Len(type_trail) - 1) :
          <<type_trail[i], type_trail[i + 1]>> \in TypeUpgrades
    /\ \A i, j \in 1..Len(type_trail) :
          /\ i < j => type_trail[i] # type_trail[j]
          /\ (i < j /\ type_trail[i] \in {"String", "FreeText"}) =>
                type_trail[j] \in {"String", "FreeText"}

C13_ObserveNeverNarrowsType ==
    /\ [][type_inferencer.initial_inference_done =>
             \/ inferred_type(type_inferencer') = inferred_type(type_inferencer)
             \/ <<inferred_type(type_inferencer), inferred_type(type_inferencer')>>
                   \in TypeUpgrades]_vars
    /\ []TrailClimbs

\* an inferencer has climbed from Integer through Numeric and String to
\* FreeText
C13_Witness ==
    /\ type_inferencer.initial_inference_done
    /\ type_trail = <<"Integer", "Numeric", "String", "FreeText">>

(***************************************************************************)
(* C14.  The add that makes the number of distinct values of a             *)
(* CappedUniqueTracker exceed max_values seals it and clears the value set *)
(* and the count map; from then on is_high_cardinality stays true, add     *)
(* changes nothing, and values() and value_counts() return None.  Before   *)
(* that the tracker holds the values added and how often each was added.   *)
(***************************************************************************)
\* the values of the first n add calls
AddedUpTo(n) == {added[i] : i \in 1..n}

\* some add call made the number of distinct values exceed max_values
CapExceeded ==
    \E n \in 1..Len(added) : Cardinality(AddedUpTo(n)) > unique_tracker.max_values

TrackerFollowsAdds ==
    IF CapExceeded
    THEN /\ is_high_cardinality(unique_tracker)
         /\ unique_tracker.values = {}
         /\ DOMAIN unique_tracker.value_counts = {}
         /\ unique_count(unique_tracker) = 0
         /\ CappedUniqueTracker_values(unique_tracker) = <<>>
         /\ CappedUniqueTracker_value_counts(unique_tracker) = <<>>
    ELSE /\ ~is_high_cardinality(unique_tracker)
         /\ CappedUniqueTracker_values(unique_tracker) = <<AddedUpTo(Len(added))>>
         /\ DOMAIN unique_tracker.value_counts = AddedUpTo(Len(added))
         /\ \A v \in AddedUpTo(Len(added)) :
               unique_tracker.value_counts[v] =
                  Cardinality({i \in 1..Len(added) : added[i] = v})

C14_SealingIsOneWay ==
    /\ []TrackerFollowsAdds
    /\ [][is_high_cardinality(unique_tracker) => unique_tracker' = unique_tracker]_vars

\* a tracker of two values sealed by its third distinct value, after a
\* repeated one, with further adds made since
C14_Witness ==
    /\ is_high_cardinality(unique_tracker)
    /\ unique_tracker.max_values = 2
    /\ Len(added) >= 6
    /\ Cardinality(AddedUpTo(3)) = 2
    /\ Cardinality(AddedUpTo(4)) = 3

(***************************************************************************)
(* C15.  should_suppress_value returns the reason of the first clause that *)
(* fires, in the order: Phi classification (PhiColumn), more than 32 bytes *)
(* (TooLong), count below k (BelowKThreshold, a count equal to k not being *)
(* below it), value flagged by the value-pattern matcher (PhiValue); no    *)
(* reason where none fires.  safe_string_value returns ShortString(value)  *)
(* exactly when no clause fires and a Suppressed value otherwise.          *)
(***************************************************************************)
\* the clauses of the claim that fire for the call, in the claim's order
FiringClauses ==
    SelectSeq(<< [kind |-> "PhiColumn", fires |-> call.column_classification = "Phi"],
                 [kind |-> "TooLong", fires |-> Len(call.value) > 32],
                 [kind |-> "BelowKThreshold", fires |-> call.count < call.k],
                 [kind |-> "PhiValue", fires |-> check_value_pattern(call.value).is_phi] >>,
              LAMBDA clause : clause.fires)

C15_FirstFiringClauseDecides ==
    result # <<>> =>
        /\ result[1].fn = "should_suppress_value" =>
              IF FiringClauses = <<>> THEN result[1].value = <<>>
              ELSE /\ result[1].value # <<>>
                   /\ result[1].value[1].kind = FiringClauses[1].kind
        /\ result[1].fn = "safe_string_value" =>
              IF FiringClauses = <<>> THEN result[1].value = ShortString(call.value)
              ELSE result[1].value.type = "suppressed"

\* an e-mail address seen exactly k times in a Safe column: only the last
\* clause fires
C15_Witness ==
    /\ result # <<>>
    /\ result[1].fn = "should_suppress_value"
    /\ call.value = CellEmail
    /\ call.count = call.k
    /\ call.column_classification = "Safe"
    /\ result[1].value # <<>>
    /\ result[1].value[1].kind = "PhiValue"

(***************************************************************************)
(* C16.  bucket_count(n) is the label of the one range of the table 0, 1,  *)
(* 2-5, 6-10, 11-20, 21-100, 101-1000, >1000 that contains n, the ranges   *)
(* partitioning the naturals; safe_count(n, true) is that label as a       *)
(* ShortString and safe_count(n, false) is Integer(n).                     *)
(***************************************************************************)
BucketTable ==
    << [low |-> 0, high |-> 0, label |-> <<"0">>],
       [low |-> 1, high |-> 1, label |-> <<"1">>],
       [low |-> 2, high |-> 5, label |-> <<"2", "-", "5">>],
       [low |-> 6, high |-> 10, label |-> <<"6", "-", "1", "0">>],
       [low |-> 11, high |-> 20, label |-> <<"1", "1", "-", "2", "0">>],
       [low |-> 21, high |-> 100, label |-> <<"2", "1", "-", "1", "0", "0">>],
       [low |-> 101, high |-> 1000, label |-> <<"1", "0", "1", "-", "1", "0", "0", "0">>],
       [low |-> 1001, high |-> MaxCounted, label |-> <<">", "1", "0", "0", "0">>] >>

\* the rows of the table whose range contains n; the last range is open
\* above, MaxCounted being the largest count called with
BucketsOf(n) ==
    {i \in 1..Len(BucketTable) : BucketTable[i].low <= n /\ n <= BucketTable[i].high}

C16_BucketLabelFollowsTable ==
    result # <<>> =>
        /\ Cardinality(BucketsOf(call.n)) = 1
        /\ \A i \in 1..(Len(BucketTable) - 1) :
              /\ BucketTable[i + 1].low = BucketTable[i].high + 1
              /\ i > 2 => BucketTable[i].label =
                             NatToString(BucketTable[i].low) \o <<"-">>
                                \o NatToString(BucketTable[i].high)
        /\ \A i \in BucketsOf(call.n) :
              /\ result[1].fn = "bucket_count" => result[1].value = BucketTable[i].label
              /\ result[1].fn = "safe_count" =>
                    result[1].value = IF call.bucket THEN ShortString(BucketTable[i].label)
                                      ELSE Integer(call.n)

\* the last boundary: 1001 is the first count above 1000
C16_Witness ==
    /\ result # <<>>
    /\ call.n = 1001
    /\ result[1] = [fn |-> "bucket_count", value |-> <<">", "1", "0", "0", "0">>]

(***************************************************************************)
(* C17.  A column emitted as Recode that has a non-missing cell lists in   *)
(* unique_values the synthetic labels of its distinct original values,     *)
(* sorted, in both readers, and never an original value.  The spreadsheet  *)
(* reader builds unique_values for Safe and Warning columns only and has   *)
(* no recoder, so its Recode columns are emitted without the list and this *)
(* is violated.                                                            *)
(***************************************************************************)
\* the rows that hold the first occurrence of a non-missing value
FirstOccurrences ==
    {j \in NonMissingRows :
        \A i \in NonMissingRows : i < j => TrackedString(i) # TrackedString(j)}

\* the label of the value first seen in row j: its rank in first-appearance
\* order, spelled by index_to_label, after the prefix of the header
LabelOfRow(j) ==
    determine_recode_prefix(header) \o <<"_">>
        \o index_to_label(Cardinality({i \in FirstOccurrences : i < j}))

C17_RecodeColumnListsSortedLabels ==
    (pc = "done" /\ column.classification = "Recode" /\ NonMissingRows # {}) =>
        /\ column.unique_values # <<>>
        /\ LET listed == column.unique_values[1]
           IN /\ Len(listed) = Cardinality(FirstOccurrences)
              /\ {listed[i].value : i \in 1..Len(listed)} =
                    {LabelOfRow(j) : j \in FirstOccurrences}
              /\ \A i \in 1..(Len(listed) - 1) : StrLt(listed[i].value, listed[i + 1].value)
              /\ \A i \in 1..Len(listed) :
                    /\ listed[i].type = "short_string"
                    /\ \A j \in NonMissingRows : listed[i].value # TrackedString(j)

(***************************************************************************)
(* C18.  check_column_name tests the PHI list, then the Recode list, then  *)
(* the Warn list, and returns the classification of the first list that    *)
(* holds a matching pattern, with the first matching pattern of that list: *)
(* a name matching a PHI pattern is Phi whatever else it matches, a name   *)
(* matching a Recode and a Warn pattern (site_code) is Recode, and a name  *)
(* matching no pattern is Safe with no matched pattern and no warning.     *)
(***************************************************************************)
\* the patterns of the list that match the name, in the order of the list
MatchingPatterns(name, patterns) ==
    SelectSeq(patterns,
              LAMBDA pattern :
                 matches_pattern(normalize_column_name(to_lowercase(name)), pattern))

SiteCode == <<"s", "i", "t", "e", "_", "c", "o", "d", "e">>

C18_FirstMatchingListDecides ==
    result # <<>> =>
        LET phi == MatchingPatterns(call.name, PHI_PATTERNS)
            recode == MatchingPatterns(call.name, PHI_RECODE)
            warn == MatchingPatterns(call.name, PHI_WARN_ONLY)
            got == result[1].value
        IN /\ phi # <<>> =>
                 got.classification = "Phi" /\ got.matched_pattern = <<phi[1]>>
           /\ (phi = <<>> /\ recode # <<>>) =>
                 got.classification = "Recode" /\ got.matched_pattern = <<recode[1]>>
           /\ (phi = <<>> /\ recode = <<>> /\ warn # <<>>) =>
                 got.classification = "Warning" /\ got.matched_pattern = <<warn[1]>>
           /\ (phi = <<>> /\ recode = <<>> /\ warn = <<>>) =>
                 /\ got.classification = "Safe"
                 /\ got.matched_pattern = <<>>
                 /\ got.warning = <<>>
           /\ got.classification # "Safe" => got.warning # <<>>
           /\ to_lowercase(call.name) = SiteCode => got.classification = "Recode"

\* site_code, spelled Site_code, matches a Recode and a Warn pattern and no
\* PHI pattern, and is classified Recode
C18_Witness ==
    /\ result # <<>>
    /\ to_lowercase(call.name) = SiteCode
    /\ MatchingPatterns(call.name, PHI_PATTERNS) = <<>>
    /\ MatchingPatterns(call.name, PHI_RECODE) # <<>>
    /\ MatchingPatterns(call.name, PHI_WARN_ONLY) # <<>>
    /\ result[1].value.classification = "Recode"

(***************************************************************************)
(* C19.  Every ProcessingOptions handed to extract_schema, by the Scan     *)
(* command or by the window after any sequence of checkbox toggles, has    *)
(* exact_counts only with relaxed and exact_median only with relaxed.      *)
(* The Scan command masks both flags with relaxed; the window disables the *)
(* two checkboxes while relaxed is off but leaves them checked when        *)
(* relaxed is unchecked afterwards, so this is violated.                   *)
(***************************************************************************)
C19_ExactFlagsNeedRelaxed ==
    result # <<>> =>
        /\ result[1].exact_counts => result[1].relaxed
        /\ result[1].exact_median => result[1].relaxed

\* the count v is emitted as the raw Integer n
RawInteger(v, n) == v.type = "integer" /\ v.value = n

(***************************************************************************)
(* C20.  A manifest extracted with relaxed and exact_counts both set emits *)
(* its counts as raw Integer values: the row_count of the sheet, the count *)
(* and the missing_count of the column, and the unique_count of a column   *)
(* whose unique tracker did not seal.  The reader looks at bucket_counts   *)
(* alone, which the Scan command leaves set, so the counts are bucket      *)
(* labels and this is violated.                                            *)
(***************************************************************************)
C20_ExactCountsAreIntegers ==
    (pc = "done" /\ options.relaxed /\ options.exact_counts) =>
        /\ RawInteger(sheet_row_count, Len(cells))
        /\ column.stats # <<>>
        /\ column.stats[1].count # <<>>
        /\ RawInteger(column.stats[1].count[1], Cardinality(NonMissingRows))
        /\ column.stats[1].missing_count # <<>>
        /\ RawInteger(column.stats[1].missing_count[1], Cardinality(MissingRows))
        /\ ~is_high_cardinality(stat_tracker.unique_tracker) =>
              /\ column.stats[1].unique_count # <<>>
              /\ column.stats[1].unique_count[1].type = "integer"

\* the seven supported extensions, in lower case
SupportedExtensions ==
    { <<"c", "s", "v">>, <<"t", "s", "v">>, <<"t", "a", "b">>, <<"x", "l", "s", "x">>,
      <<"x", "l", "s">>, <<"x", "l", "s", "m">>, <<"x", "l", "s", "b">> }

\* the format the manifest names for a supported extension
FormatOfExtension(lower) ==
    IF lower = <<"c", "s", "v">> THEN "csv"
    ELSE IF lower \in {<<"t", "s", "v">>, <<"t", "a", "b">>} THEN "tsv"
    ELSE "excel"

(***************************************************************************)
(* C21.  extract_schema on a path whose extension is, compared without     *)
(* regard to case, none of csv, tsv, tab, xlsx, xls, xlsm, xlsb returns    *)
(* UnsupportedFormat with the file neither hashed nor opened; for a        *)
(* supported extension the format of the manifest is csv, tsv (for tsv and *)
(* tab) or excel.                                                          *)
(***************************************************************************)
C21_FormatFollowsExtension ==
    result # <<>> =>
        IF to_lowercase(PathExt) \in SupportedExtensions
        THEN /\ result[1].format = <<FormatOfExtension(to_lowercase(PathExt))>>
             /\ result[1].error # <<"UnsupportedFormat">>
        ELSE /\ result[1].step = "returned"
             /\ result[1].error = <<"UnsupportedFormat">>
             /\ ~result[1].hashed
             /\ ~result[1].opened

\* an upper-case Excel extension behind a dotted stem got its manifest and
\* an unknown extension was refused
C21_Witness ==
    /\ result # <<>>
    /\ call.file_name = <<"d", ".", "c", "s", "v", ".", "X", "l", "s", "B">>
    /\ result[1].step = "returned"
    /\ result[1].format = <<"excel">>
    /\ result[1].hashed

\* the observations that lie below v, and those that do not lie above it
CountBelow(values, v) == Cardinality({i \in 1..Len(values) : FLt(values[i], v)})

CountUpTo(values, v) == Cardinality({i \in 1..Len(values) : FLe(values[i], v)})

\* v is the element at the zero-based index idx of the sorted values
IsOrderStatistic(values, idx, v) ==
    /\ \E i \in 1..Len(values) : values[i] = v
    /\ CountBelow(values, v) <= idx
    /\ idx < CountUpTo(values, v)

\* the index the small-sample rule names: round((n - 1) * p), halves upwards
SmallSampleIndex(n, p) ==
    CHOOSE idx \in 0..(n - 1) :
        /\ 2 * idx * p.d <= 2 * (n - 1) * p.n + p.d
        /\ 2 * (n - 1) * p.n + p.d < 2 * (idx + 1) * p.d

(***************************************************************************)
(* C22.  A P2Quantile with target p that received n observations, n from 1 *)
(* to 4, answers quantile() with the element at index round((n - 1) * p)   *)
(* of the sorted observations, whatever their order of arrival, and with   *)
(* None for n = 0.  quantile sorts with partial_cmp(..).unwrap(): two      *)
(* observations of which one is NaN make the call panic, so this is        *)
(* violated.                                                               *)
(***************************************************************************)
C22_SmallSampleQuantileIsOrderStatistic ==
    (result # <<>> /\ Len(call.observations) <= 4) =>
        /\ result[1].returned
        /\ IF call.observations = <<>>
           THEN result[1].value = <<>>
           ELSE /\ result[1].value # <<>>
                /\ IsOrderStatistic(call.observations,
                                    SmallSampleIndex(Len(call.observations),
                                                     call.estimator.p),
                                    result[1].value[1])

\* free text to the inferencer: longer than 100 bytes, or holding a line break
IsFreeTextValue(value) == Len(value) > 100 \/ InSeq("\n", value)

\* this step is observe(value) for a value that is not missing
ObservesValue ==
    /\ call'.fn = "observe"
    /\ type_inferencer'.values_seen = type_inferencer.values_seen + 1

(***************************************************************************)
(* C23.  Every non-missing value observed that is longer than 100 bytes or *)
(* holds a line break adds one to free_text_count, during sampling and     *)
(* after the initial inference alike; whenever free_text_count is above 10 *)
(* and the type is String the type is FreeText instead, and FreeText       *)
(* stays.  The count is kept by upgrade_type_if_needed alone, which the    *)
(* sampling phase does not call, so this is violated.                      *)
(***************************************************************************)
C23_FreeTextIsCountedEverywhere ==
    /\ [][(ObservesValue /\ IsFreeTextValue(call'.value)) =>
             type_inferencer'.free_text_count = type_inferencer.free_text_count + 1]_vars
    /\ [](type_inferencer.free_text_count > 10 =>
             type_inferencer.current_type # "String")
    /\ [][type_inferencer.current_type = "FreeText" =>
             type_inferencer'.current_type = "FreeText"]_vars

\* the upgrade table: the type an inferencer of type current has after a
\* non-missing value
TableType(current, value) ==
    IF current = "Integer" /\ ~is_integer(value) /\ is_numeric(value) THEN "Numeric"
    ELSE IF current = "Integer" /\ ~is_integer(value) THEN "String"
    ELSE IF current = "Numeric" /\ ~is_numeric(value) THEN "String"
    ELSE IF current = "Boolean" /\ ~is_boolean(value) THEN "String"
    ELSE IF current = "Date" /\ is_datetime(value) THEN "Datetime"
    ELSE IF current = "Date" /\ ~is_date(value) THEN "String"
    ELSE IF current = "Datetime" /\ ~is_date(value) /\ ~is_datetime(value) THEN "String"
    ELSE current

\* this step is observe(value), value not missing, after the initial inference
ObservesAfterInference == ObservesValue /\ type_inferencer.initial_inference_done

(***************************************************************************)
(* C24, as stated.  After the initial inference observe(v) for a           *)
(* non-missing v changes the type as the upgrade table says and leaves it  *)
(* unchanged in every other case.  A String inferencer that receives its   *)
(* eleventh free-text value becomes FreeText, which the table does not     *)
(* hold, so this is violated.                                              *)
(***************************************************************************)
C24_UpgradeTableOnly ==
    [][ObservesAfterInference =>
          type_inferencer'.current_type =
              TableType(type_inferencer.current_type, call'.value)]_vars

(***************************************************************************)
(* C24, amended.  After the initial inference observe(v) for a non-missing *)
(* v changes the type as the upgrade table says, and leaves it unchanged   *)
(* in every other case but one: a String inferencer whose free_text_count  *)
(* passes 10 with v becomes FreeText.                                      *)
(***************************************************************************)
C24_UpgradeTableAndFreeText ==
    [][ObservesAfterInference =>
          type_inferencer'.current_type =
              IF /\ type_inferencer.current_type = "String"
                 /\ IsFreeTextValue(call'.value)
                 /\ type_inferencer.free_text_count >= 10
              THEN "FreeText"
              ELSE TableType(type_inferencer.current_type, call'.value)]_vars

\* an Integer inferencer has become Numeric on a value with a fraction
C24_Witness ==
    /\ call # <<>>
    /\ call.fn = "observe"
    /\ call.value = CellFloat
    /\ type_trail = <<"Integer", "Numeric">>

\* the first of Boolean, Integer, Numeric, Datetime, Date that admits every
\* value of the buffer, String if none does
FirstAdmitting(buffer) ==
    LET all == {t \in NarrowTypes : \A i \in 1..Len(buffer) : t \in Admitting(buffer[i])}
    IN IF "Boolean" \in all THEN "Boolean"
       ELSE IF "Integer" \in all THEN "Integer"
       ELSE IF "Numeric" \in all THEN "Numeric"
       ELSE IF "Datetime" \in all THEN "Datetime"
       ELSE IF "Date" \in all THEN "Date"
       ELSE "String"

\* this step must run the initial inference, and the buffer it runs on
InferenceIsDue ==
    /\ ~type_inferencer.initial_inference_done
    /\ \/ /\ ObservesValue
          /\ Len(type_inferencer.samples) + 1 >= type_inferencer.max_samples
       \/ /\ call'.fn = "finalize_initial_inference"
          /\ type_inferencer.samples # <<>>

DueBuffer ==
    IF call'.fn = "observe"
    THEN Append(type_inferencer.samples, call'.value)
    ELSE type_inferencer.samples

(***************************************************************************)
(* C25.  The initial inference of a TypeInferencer runs exactly when the   *)
(* buffer reaches its capacity or finalize_initial_inference is called     *)
(* with a non-empty buffer, and at most once; it sets the type to the      *)
(* first of Boolean, Integer, Numeric, Datetime, Date that admits every    *)
(* buffered value, else String, and empties the buffer; the buffer never   *)
(* exceeds the capacity, and an inferencer without a non-missing value     *)
(* reports String.                                                         *)
(***************************************************************************)
C25_InitialInferenceRunsOnce ==
    /\ [][/\ type_inferencer'.initial_inference_done =
                (type_inferencer.initial_inference_done \/ InferenceIsDue)
          /\ InferenceIsDue =>
                /\ type_inferencer'.current_type = FirstAdmitting(DueBuffer)
                /\ type_inferencer'.samples = <<>>
          /\ (~type_inferencer.initial_inference_done /\ ~InferenceIsDue) =>
                type_inferencer'.current_type = "None"]_vars
    /\ [](Len(type_inferencer.samples) <= type_inferencer.max_samples)
    /\ [](type_inferencer.initial_inference_done => type_inferencer.samples = <<>>)
    /\ [](type_inferencer.values_seen = 0 => inferred_type(type_inferencer) = "String")

\* the buffer filled up with two boolean tokens of which one is an integer
\* too, and the inference chose Boolean
C25_Witness ==
    /\ call # <<>>
    /\ call.fn = "observe"
    /\ call.value = CellZero
    /\ type_inferencer.values_seen = type_inferencer.max_samples
    /\ type_inferencer.initial_inference_done
    /\ type_inferencer.current_type = "Boolean"

\* the least type whose recogniser accepts every value observed, Datetime
\* standing for dates and datetimes together, String if there is none
LeastAccepting ==
    IF "Boolean" \in Admitted THEN "Boolean"
    ELSE IF "Integer" \in Admitted THEN "Integer"
    ELSE IF "Numeric" \in Admitted THEN "Numeric"
    ELSE IF "Date" \in Admitted THEN "Date"
    ELSE IF Least \in {"Date", "Datetime"} THEN "Datetime"
    ELSE "String"

\* the types the lattice names for the values observed: the least accepting
\* type, or the join of the values' own types where a boolean word among
\* integers is taken for an Integer; FreeText stands above String
LatticeTypes ==
    {LeastAccepting, Least} \cup
        (IF "String" \in {LeastAccepting, Least} THEN {"FreeText"} ELSE {})

(***************************************************************************)
(* C26.  The type inferred for a column is the least type of the lattice   *)
(* that admits all its non-missing values, wherever the sample ends:       *)
(* String results only from an incompatible pair, boolean tokens followed  *)
(* by other integers give Integer, dates together with datetimes give      *)
(* Datetime.  The upgrade turns a Boolean column into String on any value  *)
(* that is no boolean token, and a sample that mixes dates with datetimes  *)
(* is String, so this is violated.                                         *)
(***************************************************************************)
C26_InferredTypeIsLeastAdmitting ==
    type_inferencer.initial_inference_done =>
        inferred_type(type_inferencer) \in LatticeTypes

(***************************************************************************)
(* C27.  observe(v) with v a missing token (after trimming, equal to one   *)
(* of the tokens whatever the case; "0" is none) leaves the TypeInferencer *)
(* unchanged in every field, while sampling and after the inference.       *)
(***************************************************************************)
C27_MissingValueChangesNothing ==
    /\ [][(call'.fn = "observe" /\ is_missing(call'.value)) =>
             type_inferencer' = type_inferencer]_vars
    /\ [](is_missing(CellNA) /\ is_missing(CellPaddedNa) /\ ~is_missing(CellZero))

\* a padded missing token in mixed case was observed by an inferencer that
\* had inferred Integer from three values, and left it as it was
C27_Witness ==
    /\ call # <<>>
    /\ call.fn = "observe"
    /\ call.value = CellPaddedNa
    /\ type_inferencer.initial_inference_done
    /\ type_inferencer.current_type = "Integer"
    /\ type_inferencer.values_seen = 3

\* every non-missing cell of the column satisfies the recogniser
EveryValue(recognised(_)) == \A j \in NonMissingRows : recognised(cells[j])

IsDateOrDatetime(value) == is_date(value) \/ is_datetime(value)

ParsesAsNumber(value) == parse_numeric(value) # <<>>

(***************************************************************************)
(* C28.  After pass 1 a column inferred Boolean, Integer, Numeric or Date  *)
(* holds only non-missing values that its type's recogniser accepts, and a *)
(* Datetime column only dates and datetimes; so in pass 2 every            *)
(* non-missing cell of an Integer or Numeric column parses as a number and *)
(* goes to Welford and P2, none to the string-only path.                   *)
(***************************************************************************)
C28_InferredTypeFitsEveryValue ==
    LET dtype == inferred_type(type_inferencer)
    IN /\ pc \in {"pass2", "done"} =>
             /\ dtype = "Boolean" => EveryValue(is_boolean)
             /\ dtype = "Integer" => EveryValue(is_integer)
             /\ dtype = "Numeric" => EveryValue(is_numeric)
             /\ dtype = "Date" => EveryValue(is_date)
             /\ dtype = "Datetime" => EveryValue(IsDateOrDatetime)
             /\ dtype \in {"Integer", "Numeric"} => EveryValue(ParsesAsNumber)
       /\ (pc = "done" /\ dtype \in {"Integer", "Numeric"}) =>
             /\ stat_tracker.welford.count = Cardinality(NonMissingRows)
             /\ stat_tracker.p2_median.count = Cardinality(NonMissingRows)

\* a column sampled as Integer met a fraction after its sample, became
\* Numeric, and all three cells reached Welford and P2
C28_Witness ==
    /\ pc = "done"
    /\ cells = <<CellTwo, CellTwo, CellFloat>>
    /\ inferred_type(type_inferencer) = "Numeric"
    /\ stat_tracker.welford.count = 3
    /\ stat_tracker.p2_median.count = 3

\* the estimator of the scenario and the number of observations it received
Estimator == call.estimator

AddCalls(value) == Cardinality({i \in 1..Len(added) : added[i] = value})

C30_TrackerStaysWithinCap ==
    /\ Cardinality(unique_tracker.values) <= unique_tracker.max_values
    /\ DOMAIN unique_tracker.value_counts = unique_tracker.values
    /\ ~unique_tracker.high_cardinality =>
          \A value \in unique_tracker.values :
             unique_tracker.value_counts[value] = AddCalls(value)
    /\ unique_count(unique_tracker) = Cardinality(unique_tracker.values)
    /\ unique_tracker.high_cardinality => unique_count(unique_tracker) = 0

\* an unsealed tracker filled to its cap of two values, one of them added
\* three times and the other twice
C30_Witness ==
    /\ ~unique_tracker.high_cardinality
    /\ unique_tracker.max_values = UniqueCap
    /\ Cardinality(unique_tracker.values) = UniqueCap
    /\ \E v, w \in unique_tracker.values :
          /\ unique_tracker.value_counts[v] = 3
          /\ unique_tracker.value_counts[w] = 2
====
